---- MODULE Spec2Model ----
(* The two line-delimited JSON-RPC 2.0 servers of the repository            *)
(* (Assets/MCP/blender_mcp_server.py and Assets/MCP/github_mcp_example.py): *)
(* the stdio main loop, handle_request, call_tool, error_response and the   *)
(* tool handlers they dispatch to (specification Spec); and the script     *)
(* add_mcp_config.py, which merges NEW_CONFIGS into mcp.json (specification *)
(* SpecConfig).                                                             *)
EXTENDS Integers, Sequences, FiniteSets, TLC

(***************************************************************************)
(* Bounds of the model.                                                    *)
(***************************************************************************)
MaxLines == 2
MaxObjects == 2
MaxMaterials == 1
MaxScenes == 2
MaxRuns == 2

(***************************************************************************)
(* Python values.  A value decoded from JSON is a record tagged with its   *)
(* Python type; a dict carries its items in the field d, whose DOMAIN is   *)
(* the set of keys present.                                                *)
(***************************************************************************)
PyNone == [py |-> "NoneType"]
PyInt(n) == [py |-> "int", n |-> n]
PyStr(s) == [py |-> "str", s |-> s]
PyList == [py |-> "list"]
PyDict(items) == [py |-> "dict", d |-> items]
EmptyDict == PyDict(<<>>)
PyFloat(r) == [py |-> "float", r |-> r]
PyBool(b) == [py |-> "bool", b |-> b]
PyListOf(items) == [py |-> "list", items |-> items]

\* A JSON string holding the escape \ud800: json.loads decodes it to a lone
\* surrogate, which the utf-8 encoder of stdout refuses.
Surrogate == PyStr("\\ud800")

IsDict(v) == v.py = "dict"
IsStr(v) == v.py = "str"

\* bool(v), as `if v` and `v and ...` take it
Truthy(v) ==
  CASE v.py = "NoneType" -> FALSE
    [] v.py = "int" -> v.n # 0
    [] v.py = "str" -> v.s # ""
    [] v.py = "list" -> TRUE
    [] v.py = "dict" -> DOMAIN v.d # {}
    [] v.py = "bool" -> v.b

\* dict.get(key, default)
Get(v, key, default) == IF key \in DOMAIN v.d THEN v.d[key] ELSE default

\* str(v) as an f-string formats it
Str(v) ==
  CASE v.py = "str" -> v.s
    [] v.py = "int" -> ToString(v.n)
    [] v.py = "NoneType" -> "None"
    [] v.py = "list" -> "[1]"
    [] v.py = "dict" -> "{...}"

\* str.upper() and str.lower() on the strings the model feeds them
Upper(s) ==
  CASE s = "cube" -> "CUBE"
    [] s = "Cube" -> "CUBE"
    [] s = "dodecahedron" -> "DODECAHEDRON"
    [] s = "create" -> "CREATE"
    [] s = "delete" -> "DELETE"
    [] s = "switch" -> "SWITCH"
    [] s = "add_object" -> "ADD_OBJECT"
    [] s = "remove_object" -> "REMOVE_OBJECT"
    [] s = "link_object" -> "LINK_OBJECT"
    [] s = "unlink_object" -> "UNLINK_OBJECT"
    [] s = "subdivide" -> "SUBDIVIDE"
    [] s = "explode" -> "EXPLODE"
    [] s = "lightmap_pack" -> "LIGHTMAP_PACK"
    [] s = "smart_uv_unwrap" -> "SMART_UV_UNWRAP"
    [] OTHER -> s

Lower(s) ==
  CASE s = "CUBE" -> "cube"
    [] s = "Cube" -> "cube"
    [] s = "Create_Object" -> "create_object"
    [] s = "DODECAHEDRON" -> "dodecahedron"
    [] OTHER -> s

\* A message is the sequence of the pieces an f-string concatenates.
Contains(msg, piece) == \E i \in 1..Len(msg) : msg[i] = piece

\* str(e) of the AttributeError raised by v.attr on a value without attr
AttributeErrorMsg(v, attr) ==
  <<"'", v.py, "' object has no attribute '", attr, "'">>

\* traceback.format_exc() inside an except block: a non-empty string
Traceback == "Traceback (most recent call last): ..."
NoData == ""

\* json.dumps(result, indent=2): the text that encodes the value
JsonDumps(v) == [json |-> v, indent |-> 2]

(***************************************************************************)
(* Outcomes of a handler: it returns a mapping or raises an Exception;     *)
(* either way it leaves the host application in some state.                *)
(***************************************************************************)
Return(result, host) == [raised |-> FALSE, msg |-> <<>>, result |-> result, host |-> host]
Raise(msg, host) == [raised |-> TRUE, msg |-> msg, result |-> PyNone, host |-> host]

\* A bpy operator or an HTTP call the handler makes may fail for reasons
\* outside the program (context, files, network).
HostFailure == <<"host operation failed">>

(***************************************************************************)
(* Blender server                                                          *)
(***************************************************************************)
\* The tool descriptors list_tools returns.  Of the properties of an
\* inputSchema the table keeps those that declare an enum; a schema without
\* a "required" key has no required field.
Blender_tools ==
  <<[name |-> "create_object",
     description |-> "Create a primitive object (cube, sphere, plane, etc.)",
     inputSchema |-> [type |-> "object",
                      properties |->
                        [type |-> [enum |-> <<"CUBE", "SPHERE", "PLANE", "CYLINDER", "CONE", "TORUS">>]],
                      required |-> <<"type">>]],
    [name |-> "delete_object",
     description |-> "Delete an object by name",
     inputSchema |-> [type |-> "object",
                      required |-> <<"name">>]],
    [name |-> "set_object_transform",
     description |-> "Set position, rotation, or scale of an object",
     inputSchema |-> [type |-> "object",
                      required |-> <<"name">>]],
    [name |-> "add_modifier",
     description |-> "Add a modifier to an object",
     inputSchema |-> [type |-> "object",
                      properties |->
                        [modifier_type |-> [enum |-> <<"SUBSURF", "MIRROR", "ARRAY", "BEVEL", "SOLIDIFY">>]],
                      required |-> <<"object_name", "modifier_type">>]],
    [name |-> "create_material",
     description |-> "Create a new material and optionally assign it to an object",
     inputSchema |-> [type |-> "object",
                      required |-> <<"material_name">>]],
    [name |-> "import_model",
     description |-> "Import a 3D model (FBX, OBJ, GLTF, etc.)",
     inputSchema |-> [type |-> "object",
                      properties |->
                        [file_type |-> [enum |-> <<"FBX", "OBJ", "GLTF", "USD", "ABC">>]],
                      required |-> <<"filepath">>]],
    [name |-> "export_model",
     description |-> "Export the scene or selected objects",
     inputSchema |-> [type |-> "object",
                      properties |->
                        [file_type |-> [enum |-> <<"FBX", "OBJ", "GLTF", "USD", "ABC">>]],
                      required |-> <<"filepath", "file_type">>]],
    [name |-> "render_scene",
     description |-> "Render the current scene to an image",
     inputSchema |-> [type |-> "object",
                      properties |->
                        [engine |-> [enum |-> <<"CYCLES", "EEVEE", "WORKBENCH">>]],
                      required |-> <<"filepath">>]],
    [name |-> "execute_python",
     description |-> "Execute arbitrary Python code in Blender context",
     inputSchema |-> [type |-> "object",
                      required |-> <<"code">>]],
    [name |-> "get_scene_info",
     description |-> "Get information about the current scene",
     inputSchema |-> [type |-> "object"]],
    [name |-> "optimize_scene",
     description |-> "Optimize scene for performance",
     inputSchema |-> [type |-> "object"]],
    [name |-> "create_animation",
     description |-> "Create keyframe animation",
     inputSchema |-> [type |-> "object",
                      properties |->
                        [interpolation |-> [enum |-> <<"LINEAR", "BEZIER", "CONSTANT">>]],
                      required |-> <<"object_name", "property">>]],
    [name |-> "manage_asset",
     description |-> "Mark or unmark data as asset, generate previews",
     inputSchema |-> [type |-> "object",
                      properties |->
                        [data_type |-> [enum |-> <<"OBJECT", "MATERIAL", "MESH", "TEXTURE">>],
                         action |-> [enum |-> <<"MARK_ASSET", "CLEAR_ASSET", "GENERATE_PREVIEW">>]],
                      required |-> <<"data_type", "data_name", "action">>]],
    [name |-> "copy_data",
     description |-> "Duplicate any Blender datablock (object, material, mesh, etc.)",
     inputSchema |-> [type |-> "object",
                      properties |->
                        [data_type |-> [enum |-> <<"OBJECT", "MATERIAL", "MESH", "TEXTURE", "COLLECTION">>]],
                      required |-> <<"data_type", "source_name", "target_name">>]],
    [name |-> "manage_library",
     description |-> "Make data local or get library information",
     inputSchema |-> [type |-> "object",
                      properties |->
                        [data_type |-> [enum |-> <<"OBJECT", "MATERIAL", "MESH", "TEXTURE">>],
                         action |-> [enum |-> <<"MAKE_LOCAL", "GET_INFO">>]],
                      required |-> <<"data_type", "data_name", "action">>]],
    [name |-> "get_data_info",
     description |-> "Get detailed information about any Blender datablock",
     inputSchema |-> [type |-> "object",
                      properties |->
                        [data_type |-> [enum |-> <<"OBJECT", "MATERIAL", "MESH", "TEXTURE", "COLLECTION">>]],
                      required |-> <<"data_type", "data_name">>]],
    [name |-> "manage_users",
     description |-> "Manage datablock users (remap, clear, find usage)",
     inputSchema |-> [type |-> "object",
                      properties |->
                        [action |-> [enum |-> <<"CLEAR_USERS", "FIND_USERS", "USER_REMAP">>],
                         data_type |-> [enum |-> <<"OBJECT", "MATERIAL", "MESH", "TEXTURE">>]],
                      required |-> <<"action", "data_type", "data_name">>]],
    [name |-> "manage_scenes",
     description |-> "Create, delete, or switch scenes",
     inputSchema |-> [type |-> "object",
                      properties |->
                        [action |-> [enum |-> <<"CREATE", "DELETE", "SWITCH">>]],
                      required |-> <<"action", "scene_name">>]],
    [name |-> "manage_collections",
     description |-> "Create/delete collections and manage object membership",
     inputSchema |-> [type |-> "object",
                      properties |->
                        [action |-> [enum |-> <<"CREATE", "DELETE", "ADD_OBJECT", "REMOVE_OBJECT", "LINK_OBJECT", "UNLINK_OBJECT">>]],
                      required |-> <<"action", "collection_name">>]],
    [name |-> "manage_animation_data",
     description |-> "Create or clear animation data for datablocks",
     inputSchema |-> [type |-> "object",
                      properties |->
                        [action |-> [enum |-> <<"CREATE", "CLEAR">>],
                         data_type |-> [enum |-> <<"OBJECT", "MATERIAL", "MESH", "TEXTURE">>]],
                      required |-> <<"action", "data_type", "data_name">>]],
    [name |-> "create_library_override",
     description |-> "Create library overrides for linked datablocks",
     inputSchema |-> [type |-> "object",
                      properties |->
                        [data_type |-> [enum |-> <<"OBJECT", "MATERIAL", "MESH", "TEXTURE">>]],
                      required |-> <<"data_type", "data_name">>]],
    [name |-> "mesh_operations",
     description |-> "Perform mesh operations (subdivide, decimate, triangulate, etc.)",
     inputSchema |-> [type |-> "object",
                      properties |->
                        [operation |-> [enum |-> <<"SUBDIVIDE", "DECIMATE", "TRIANGULATE", "QUAD_TO_TRI", "TRI_TO_QUAD">>]],
                      required |-> <<"object_name", "operation">>]],
    [name |-> "uv_operations",
     description |-> "Perform UV operations (unwrap, pack islands, etc.)",
     inputSchema |-> [type |-> "object",
                      properties |->
                        [operation |-> [enum |-> <<"SMART_UV_UNWRAP", "LIGHTMAP_PACK", "AVERAGE_ISLANDS_SCALE">>]],
                      required |-> <<"object_name", "operation">>]],
    [name |-> "bake_textures",
     description |-> "Bake textures (normal, diffuse, roughness, etc.)",
     inputSchema |-> [type |-> "object",
                      properties |->
                        [bake_type |-> [enum |-> <<"NORMAL", "DIFFUSE", "ROUGHNESS", "METALLIC", "EMISSION", "AO", "COMBINED">>]],
                      required |-> <<"object_name", "bake_type", "image_name">>]],
    [name |-> "preview_ensure",
     description |-> "Ensure preview images exist for datablocks",
     inputSchema |-> [type |-> "object",
                      properties |->
                        [data_type |-> [enum |-> <<"OBJECT", "MATERIAL", "MESH", "TEXTURE">>]],
                      required |-> <<"data_type", "data_name">>]]>>

BlenderTools == [i \in 1..Len(Blender_tools) |-> Blender_tools[i].name]

GitHub_tools ==
  <<[name |-> "create_issue",
     description |-> "Create a new GitHub issue",
     inputSchema |-> [type |-> "object",
                      required |-> <<"repo", "title">>]],
    [name |-> "search_repositories",
     description |-> "Search for GitHub repositories",
     inputSchema |-> [type |-> "object",
                      required |-> <<"query">>]],
    [name |-> "get_repository_info",
     description |-> "Get information about a GitHub repository",
     inputSchema |-> [type |-> "object",
                      required |-> <<"owner", "repo">>]]>>

GitHubTools == [i \in 1..Len(GitHub_tools) |-> GitHub_tools[i].name]

\* Variant of BlenderChain: the chain ends one branch early
BlenderChain_Short ==
  <<"create_object", "delete_object", "set_object_transform", "add_modifier",
    "create_material", "import_model", "export_model", "render_scene",
    "execute_python", "get_scene_info", "optimize_scene", "create_animation",
    "manage_asset", "copy_data", "manage_library", "get_data_info",
    "manage_users", "manage_scenes", "manage_collections",
    "manage_animation_data", "create_library_override", "mesh_operations",
    "uv_operations", "bake_textures">>

\* The names the if/elif chain of call_tool compares tool_name with, in the
\* order of its branches
BlenderChain ==
  <<"create_object", "delete_object", "set_object_transform", "add_modifier",
    "create_material", "import_model", "export_model", "render_scene",
    "execute_python", "get_scene_info", "optimize_scene", "create_animation",
    "manage_asset", "copy_data", "manage_library", "get_data_info",
    "manage_users", "manage_scenes", "manage_collections",
    "manage_animation_data", "create_library_override", "mesh_operations",
    "uv_operations", "bake_textures", "preview_ensure">>

GitHubChain == <<"create_issue", "search_repositories", "get_repository_info">>

primitive_map == {"CUBE", "SPHERE", "PLANE", "CYLINDER", "CONE", "TORUS"}

\* `name in bpy.data.objects`: bpy_prop_collection.__contains__ accepts only
\* strings and raises TypeError on anything else.
ContainsTypeError == <<"bpy_prop_collection.__contains__: expected a string or a tuple of strings">>

\* The name Blender gives a new datablock: the requested one, or the first
\* free numbered variant when it is taken.
UniqueName(n, taken) ==
  IF n \notin taken THEN n
  ELSE IF (n \o ".001") \notin taken THEN n \o ".001"
  ELSE n \o ".002"

create_object(args, host) ==
  IF ~IsDict(args) THEN {Raise(AttributeErrorMsg(args, "get"), host)}
  ELSE LET t == Get(args, "type", PyStr("CUBE")) IN
    IF ~IsStr(t) THEN {Raise(AttributeErrorMsg(t, "upper"), host)}
    ELSE LET obj_type == Upper(t.s)
             name == Get(args, "name", PyStr(Lower(obj_type)))
         IN IF obj_type \notin primitive_map
            THEN {Raise(<<"Unknown object type: ", obj_type>>, host)}
            ELSE {Raise(HostFailure, host)} \cup
                 (IF IsStr(name)
                  THEN {Return([success |-> TRUE, object_name |-> name, type |-> obj_type],
                               [host EXCEPT !.objects = @ \cup {UniqueName(name.s, @)}])}
                  ELSE \* the primitive exists under its default name when
                       \* obj.name = name rejects the value
                       {Raise(<<"bpy_struct: item.attr = val: Object.name expected a string type, not ", name.py>>,
                              [host EXCEPT !.objects = @ \cup {UniqueName("Cube", @)}])})

delete_object(args, host) ==
  IF ~IsDict(args) THEN {Raise(AttributeErrorMsg(args, "get"), host)}
  ELSE LET name == Get(args, "name", PyNone) IN
    IF ~IsStr(name) THEN {Raise(ContainsTypeError, host)}
    ELSE IF name.s \notin host.objects
         THEN {Raise(<<"Object '", name.s, "' not found">>, host)}
         ELSE {Return([success |-> TRUE, deleted |-> name],
                      [host EXCEPT !.objects = @ \ {name.s},
                                   !.slots = {p \in @ : p[1] # name.s},
                                   !.links = {p \in @ : p[2] # name.s}])}

\* bpy.data.materials.new(name=...) takes a string only
MaterialNameTypeError(v) ==
  <<"BlendDataMaterials.new(): error with argument 1, \"name\" -  Function.name expected a string type, not ", v.py>>

\* A colour is a sequence of four numbers; the inputs of the model hold none,
\* so assigning a given colour to the Base Color socket raises.
ColorError == <<"bpy_struct: item.attr = val: sequences of dimension 0 should contain 4 items">>

create_material(args, host) ==
  IF ~IsDict(args) THEN {Raise(AttributeErrorMsg(args, "get"), host)}
  ELSE LET mat_name == Get(args, "material_name", PyNone)
           obj_name == Get(args, "object_name", PyNone)
       IN IF ~IsStr(mat_name) THEN {Raise(MaterialNameTypeError(mat_name), host)}
          ELSE LET mat == UniqueName(mat_name.s, host.materials)
                   created == [host EXCEPT !.materials = @ \cup {mat}]
               IN IF "color" \in DOMAIN args.d THEN {Raise(ColorError, created)}
                  ELSE IF ~Truthy(obj_name)
                       THEN {Return([success |-> TRUE, material |-> mat_name], created)}
                  ELSE IF ~IsStr(obj_name) THEN {Raise(ContainsTypeError, created)}
                  ELSE IF obj_name.s \in host.objects
                       THEN {Return([success |-> TRUE, material |-> mat_name],
                                    [created EXCEPT !.slots = @ \cup {<<obj_name.s, mat>>}])}
                       ELSE \* the object is not there: the assignment is skipped
                            {Return([success |-> TRUE, material |-> mat_name], created)}

\* `for frame_data in frames` over a value that cannot be iterated
NotIterableMsg(v) == <<"'", v.py, "' object is not iterable">>

\* The inputs of the model hold no list of frame mappings: the loop runs
\* over nothing (frames left out, "" or {}), or fails on iterating or on its
\* first frame_data.get, before it has changed the object.
create_animation(args, host) ==
  IF ~IsDict(args) THEN {Raise(AttributeErrorMsg(args, "get"), host)}
  ELSE LET obj_name == Get(args, "object_name", PyNone) IN
    IF ~IsStr(obj_name) THEN {Raise(ContainsTypeError, host)}
    ELSE IF obj_name.s \notin host.objects
         THEN {Raise(<<"Object '", obj_name.s, "' not found">>, host)}
    ELSE IF "frames" \notin DOMAIN args.d
         THEN {Return([success |-> TRUE, keyframes |-> 0], host)}
    ELSE LET frames == args.d["frames"] IN
      CASE frames.py \in {"NoneType", "int"} -> {Raise(NotIterableMsg(frames), host)}
        [] frames.py = "list" -> {Raise(AttributeErrorMsg(PyInt(1), "get"), host)}
        [] Truthy(frames) -> {Raise(AttributeErrorMsg(PyStr("k"), "get"), host)}
        [] OTHER -> {Return([success |-> TRUE, keyframes |-> 0], host)}

\* bpy.data.scenes.new(name) takes a string only
SceneNameTypeError(v) ==
  <<"BlendDataScenes.new(): error with argument 1, \"name\" -  Function.name expected a string type, not ", v.py>>

\* bpy.context.window is None when Blender runs without a window
NoWindowMsg == AttributeErrorMsg(PyNone, "scene")

\* Variant of LastScene: the test is never true
LastScene_Never(host) == FALSE

\* len(bpy.data.scenes) <= 1
LastScene(host) == Cardinality(host.scenes) <= 1

\* bpy.data.scenes.remove(scene): a window that showed the scene shows one
\* of the scenes that are left.
scenes_remove(name, host) ==
  LET rest == host.scenes \ {name} IN
  IF host.scene # name \/ rest = {}
  THEN {[host EXCEPT !.scenes = rest]}
  ELSE {[host EXCEPT !.scenes = rest, !.scene = n] : n \in rest}

manage_scenes(args, host) ==
  IF ~IsDict(args) THEN {Raise(AttributeErrorMsg(args, "get"), host)}
  ELSE LET a == Get(args, "action", PyNone) IN
    IF ~IsStr(a) THEN {Raise(AttributeErrorMsg(a, "upper"), host)}
    ELSE LET action == Upper(a.s)
             scene_name == Get(args, "scene_name", PyNone)
         IN
      CASE action = "CREATE" ->
             LET template_scene == Get(args, "template_scene", PyStr(host.scene)) IN
             IF ~IsStr(template_scene) THEN {Raise(ContainsTypeError, host)}
             ELSE IF template_scene.s \notin host.scenes
                  THEN {Raise(<<"Template scene '", template_scene.s, "' not found">>, host)}
             ELSE IF ~IsStr(scene_name) THEN {Raise(SceneNameTypeError(scene_name), host)}
             ELSE {Return([success |-> TRUE, action |-> "created_scene", name |-> scene_name],
                          [host EXCEPT !.scenes = @ \cup {UniqueName(scene_name.s, @)}])}
        [] action = "DELETE" ->
             IF ~IsStr(scene_name) THEN {Raise(ContainsTypeError, host)}
             ELSE IF scene_name.s \notin host.scenes
                  THEN {Raise(<<"Scene '", scene_name.s, "' not found">>, host)}
             ELSE IF LastScene(host) THEN {Raise(<<"Cannot delete the last scene">>, host)}
             ELSE {Return([success |-> TRUE, action |-> "deleted_scene", name |-> scene_name], h) :
                     h \in scenes_remove(scene_name.s, host)}
        [] action = "SWITCH" ->
             IF ~IsStr(scene_name) THEN {Raise(ContainsTypeError, host)}
             ELSE IF scene_name.s \notin host.scenes
                  THEN {Raise(<<"Scene '", scene_name.s, "' not found">>, host)}
             ELSE {Return([success |-> TRUE, action |-> "switched_scene", name |-> scene_name],
                          [host EXCEPT !.scene = scene_name.s]),
                   Raise(NoWindowMsg, host)}
        [] OTHER -> {Raise(<<"Unknown action: ", action>>, host)}

\* collection.objects.link(obj): an object is linked to a collection once
AlreadyInCollectionMsg(collection, obj) ==
  <<"Object '", obj, "' already in collection '", collection, "'">>

\* Variant of IsMember: the test is never true
IsMember_Never(obj, collection, host) == FALSE

\* obj.name in collection.objects
IsMember(obj, collection, host) == <<collection, obj>> \in host.links

manage_collections(args, host) ==
  IF ~IsDict(args) THEN {Raise(AttributeErrorMsg(args, "get"), host)}
  ELSE LET a == Get(args, "action", PyNone) IN
    IF ~IsStr(a) THEN {Raise(AttributeErrorMsg(a, "upper"), host)}
    ELSE LET action == Upper(a.s)
             collection_name == Get(args, "collection_name", PyNone)
             object_name == Get(args, "object_name", PyNone)
         IN
      CASE action = "CREATE" ->
             IF ~IsStr(collection_name) THEN {Raise(ContainsTypeError, host)}
             ELSE IF collection_name.s \in host.collections
                  THEN {Raise(<<"Collection '", collection_name.s, "' already exists">>, host)}
             ELSE {Return([success |-> TRUE, action |-> "created_collection", name |-> collection_name],
                          [host EXCEPT !.collections = @ \cup {collection_name.s}])}
        [] action = "DELETE" ->
             IF ~IsStr(collection_name) THEN {Raise(ContainsTypeError, host)}
             ELSE IF collection_name.s \notin host.collections
                  THEN {Raise(<<"Collection '", collection_name.s, "' not found">>, host)}
             ELSE {Return([success |-> TRUE, action |-> "deleted_collection", name |-> collection_name],
                          [host EXCEPT !.collections = @ \ {collection_name.s},
                                       !.links = {p \in @ : p[1] # collection_name.s}])}
        [] OTHER ->
             IF ~Truthy(object_name)
             THEN {Raise(<<"object_name required for action ", action>>, host)}
             ELSE IF ~IsStr(collection_name) THEN {Raise(ContainsTypeError, host)}
             ELSE IF collection_name.s \notin host.collections
                  THEN {Raise(<<"Collection '", collection_name.s, "' not found">>, host)}
             ELSE IF ~IsStr(object_name) THEN {Raise(ContainsTypeError, host)}
             ELSE IF object_name.s \notin host.objects
                  THEN {Raise(<<"Object '", object_name.s, "' not found">>, host)}
             ELSE LET c == collection_name.s
                      o == object_name.s
                      linked == [host EXCEPT !.links = @ \cup {<<c, o>>}]
                      unlinked == [host EXCEPT !.links = @ \ {<<c, o>>}]
                      Done(act, h) == Return([success |-> TRUE, action |-> act,
                                              collection |-> collection_name,
                                              object |-> object_name], h)
                      Link(act) ==
                        IF IsMember(o, c, host) THEN {Done(act, host)}
                        ELSE IF <<c, o>> \in host.links
                             THEN {Raise(AlreadyInCollectionMsg(c, o), host)}
                             ELSE {Done(act, linked)}
                      Unlink(act) ==
                        IF IsMember(o, c, host) THEN {Done(act, unlinked)} ELSE {Done(act, host)}
                  IN CASE action = "ADD_OBJECT" -> Link("added_object")
                       [] action = "REMOVE_OBJECT" -> Unlink("removed_object")
                       [] action = "LINK_OBJECT" -> Link("linked_object")
                       [] action = "UNLINK_OBJECT" -> Unlink("unlinked_object")
                       [] OTHER -> {Raise(<<"Unknown action: ", action>>, host)}

\* bpy.ops.object.select_all is available in object mode only
PollFailedMsg ==
  <<"Operator bpy.ops.object.select_all.poll() failed, context is incorrect">>

\* A bpy operator called with a keyword argument of the wrong type
OperatorArgTypeError(keyword, expected, v) ==
  <<"Converting py args to operator properties: : keyword \"", keyword,
    "\" expected ", expected, " type, not ", v.py>>

IsNumber(v) == v.py \in {"int", "float"}

\* The common opening of mesh_operations and uv_operations, from the lookup
\* of the object to bpy.ops.object.mode_set(mode='EDIT'). Every object of
\* the model is a mesh primitive. The result is a set of outcomes that
\* raised, or the host in EDIT mode under "edit".
EnterEditMode(object_name, host) ==
  IF ~IsStr(object_name) THEN [raised |-> {Raise(ContainsTypeError, host)}, edit |-> {}]
  ELSE IF object_name.s \notin host.objects
       THEN [raised |-> {Raise(<<"Object '", object_name.s, "' not found">>, host)}, edit |-> {}]
  ELSE IF host.mode # "OBJECT"
       THEN [raised |-> {Raise(PollFailedMsg, host)}, edit |-> {}]
  ELSE [raised |-> {Raise(HostFailure, host)}, edit |-> {[host EXCEPT !.mode = "EDIT"]}]

\* bpy.ops.object.mode_set(mode='OBJECT')
ObjectMode(host) == [host EXCEPT !.mode = "OBJECT"]

mesh_operations(args, host) ==
  IF ~IsDict(args) THEN {Raise(AttributeErrorMsg(args, "get"), host)}
  ELSE LET object_name == Get(args, "object_name", PyNone)
           op == Get(args, "operation", PyNone)
       IN
    IF ~IsStr(op) THEN {Raise(AttributeErrorMsg(op, "upper"), host)}
    ELSE LET operation == Upper(op.s)
             iterations == Get(args, "iterations", PyInt(1))
             ratio == Get(args, "ratio", PyFloat("0.5"))
             entered == EnterEditMode(object_name, host)
             \* a mesh operator called in EDIT mode, then the return to
             \* OBJECT mode
             Operate(result, edit) == {Return(result, ObjectMode(edit)), Raise(HostFailure, edit)}
         IN entered.raised \cup UNION {
              CASE operation = "SUBDIVIDE" ->
                     IF iterations.py # "int"
                     THEN {Raise(OperatorArgTypeError("number_cuts", "an int", iterations), edit)}
                     ELSE Operate([success |-> TRUE, operation |-> "subdivided",
                                   iterations |-> iterations], edit)
                [] operation = "DECIMATE" ->
                     IF ~IsNumber(ratio)
                     THEN {Raise(OperatorArgTypeError("ratio", "a float", ratio), edit)}
                     ELSE Operate([success |-> TRUE, operation |-> "decimated",
                                   ratio |-> ratio], edit)
                [] operation = "TRIANGULATE" ->
                     Operate([success |-> TRUE, operation |-> "triangulated"], edit)
                [] operation = "QUAD_TO_TRI" ->
                     Operate([success |-> TRUE, operation |-> "quad_to_tri"], edit)
                [] operation = "TRI_TO_QUAD" ->
                     Operate([success |-> TRUE, operation |-> "tri_to_quad"], edit)
                [] OTHER ->
                     {Raise(<<"Unknown mesh operation: ", operation>>, ObjectMode(edit))}
              : edit \in entered.edit}

uv_operations(args, host) ==
  IF ~IsDict(args) THEN {Raise(AttributeErrorMsg(args, "get"), host)}
  ELSE LET object_name == Get(args, "object_name", PyNone)
           op == Get(args, "operation", PyNone)
       IN
    IF ~IsStr(op) THEN {Raise(AttributeErrorMsg(op, "upper"), host)}
    ELSE LET operation == Upper(op.s)
             angle_limit == Get(args, "angle_limit", PyFloat("66.0"))
             island_margin == Get(args, "island_margin", PyFloat("0.02"))
             user_area_weight == Get(args, "user_area_weight", PyFloat("0.0"))
             entered == EnterEditMode(object_name, host)
             Operate(result, edit) == {Return(result, ObjectMode(edit)), Raise(HostFailure, edit)}
         IN entered.raised \cup UNION {
              \* bpy.ops.mesh.select_all(action='SELECT') comes first
              {Raise(HostFailure, edit)} \cup
              CASE operation = "SMART_UV_UNWRAP" ->
                     IF ~IsNumber(angle_limit)
                     THEN {Raise(OperatorArgTypeError("angle_limit", "a float", angle_limit), edit)}
                     ELSE IF ~IsNumber(island_margin)
                     THEN {Raise(OperatorArgTypeError("island_margin", "a float", island_margin), edit)}
                     ELSE IF ~IsNumber(user_area_weight)
                     THEN {Raise(OperatorArgTypeError("user_area_weight", "a float", user_area_weight), edit)}
                     ELSE Operate([success |-> TRUE, operation |-> "smart_uv_unwrap",
                                   angle_limit |-> angle_limit], edit)
                [] operation = "LIGHTMAP_PACK" ->
                     Operate([success |-> TRUE, operation |-> "lightmap_pack"], edit)
                [] operation = "AVERAGE_ISLANDS_SCALE" ->
                     Operate([success |-> TRUE, operation |-> "average_islands_scale"], edit)
                [] OTHER ->
                     {Raise(<<"Unknown UV operation: ", operation>>, ObjectMode(edit))}
              : edit \in entered.edit}

\* Variant of execute_python: without the safe_mode test
execute_python_Unguarded(args, safe_mode, host) ==
  IF ~IsDict(args) THEN {Raise(AttributeErrorMsg(args, "get"), host)}
  ELSE {Return([success |-> FALSE, error |-> "Dangerous Python operation detected"], host),
        Return([success |-> TRUE, executed |-> TRUE], [host EXCEPT !.executed = TRUE]),
        Return([success |-> FALSE, error |-> "exception text"], [host EXCEPT !.executed = TRUE])}

execute_python(args, safe_mode, host) ==
  IF safe_mode
  THEN {Return([success |-> FALSE,
                error |-> "Python execution disabled in safe mode. Use only trusted scripts."], host)}
  ELSE IF ~IsDict(args) THEN {Raise(AttributeErrorMsg(args, "get"), host)}
  ELSE {Return([success |-> FALSE, error |-> "Dangerous Python operation detected"], host),
        Return([success |-> TRUE, executed |-> TRUE], [host EXCEPT !.executed = TRUE]),
        Return([success |-> FALSE, error |-> "exception text"], [host EXCEPT !.executed = TRUE])}

get_scene_info(args, host) ==
  {Return([scene_name |-> "Scene", object_count |-> Cardinality(host.objects),
           objects |-> host.objects], host)}

\* The remaining Blender handlers read their arguments with args.get and
\* then drive bpy: they return a mapping or raise.
other_blender_tool(args, host) ==
  IF ~IsDict(args) THEN {Raise(AttributeErrorMsg(args, "get"), host)}
  ELSE {Return([success |-> TRUE], host), Raise(HostFailure, host)}

\* The if/elif chain of BlenderMCPServer.call_tool, for a registered name
BlenderHandler(tool, args, safe_mode, host) ==
  CASE tool = "create_object" -> create_object(args, host)
    [] tool = "delete_object" -> delete_object(args, host)
    [] tool = "create_material" -> create_material(args, host)
    [] tool = "create_animation" -> create_animation(args, host)
    [] tool = "manage_scenes" -> manage_scenes(args, host)
    [] tool = "manage_collections" -> manage_collections(args, host)
    [] tool = "mesh_operations" -> mesh_operations(args, host)
    [] tool = "uv_operations" -> uv_operations(args, host)
    [] tool = "execute_python" -> execute_python(args, safe_mode, host)
    [] tool = "get_scene_info" -> get_scene_info(args, host)
    [] OTHER -> other_blender_tool(args, host)

(***************************************************************************)
(* GitHub server                                                           *)
(***************************************************************************)
\* response.json() of a completed HTTP call
ApiJson == [api |-> "json"]

create_issue(args, github_token, host) ==
  IF ~IsDict(args) THEN {Raise(AttributeErrorMsg(args, "get"), host)}
  ELSE IF github_token = ""
       THEN {Return([error |-> "GitHub token not configured"], host)}
       ELSE {Return(ApiJson, host), Raise(HostFailure, host)}

search_repositories(args, host) ==
  IF ~IsDict(args) THEN {Raise(AttributeErrorMsg(args, "get"), host)}
  ELSE {Return(ApiJson, host), Raise(HostFailure, host)}

get_repository_info(args, host) ==
  IF ~IsDict(args) THEN {Raise(AttributeErrorMsg(args, "get"), host)}
  ELSE {Return(ApiJson, host), Raise(HostFailure, host)}

GitHubHandler(tool, args, github_token, host) ==
  CASE tool = "create_issue" -> create_issue(args, github_token, host)
    [] tool = "search_repositories" -> search_repositories(args, host)
    [] OTHER -> get_repository_info(args, host)

(***************************************************************************)
(* Response envelopes and dispatch, Blender server                         *)
(***************************************************************************)
\* Variant of Blender_error_response: data is added without the `if data:`
Blender_error_response_AlwaysData(request_id, code, message, data) ==
  [jsonrpc |-> "2.0",
   id |-> request_id,
   error |-> [code |-> code, message |-> message, data |-> data]]

Blender_error_response(request_id, code, message, data) ==
  [jsonrpc |-> "2.0",
   id |-> request_id,
   error |-> IF data # NoData
             THEN [code |-> code, message |-> message, data |-> data]
             ELSE [code |-> code, message |-> message]]

\* Variant of Blender_initialize: protocolVersion carries the JSON-RPC version
Blender_initialize_RpcVersion(request_id, version, capabilities) ==
  [jsonrpc |-> "2.0",
   id |-> request_id,
   result |-> [protocolVersion |-> "2.0",
               capabilities |-> capabilities,
               serverInfo |-> [name |-> "blender-mcp-server", version |-> version]]]

Blender_initialize(request_id, version, capabilities) ==
  [jsonrpc |-> "2.0",
   id |-> request_id,
   result |-> [protocolVersion |-> "2024-11-05",
               capabilities |-> capabilities,
               serverInfo |-> [name |-> "blender-mcp-server", version |-> version]]]

Blender_list_tools(request_id) ==
  [jsonrpc |-> "2.0",
   id |-> request_id,
   result |-> [tools |-> Blender_tools]]

\* Variant of ToolResult: the text is str(result), not json.dumps(result)
ToolResult_Repr(request_id, result) ==
  [jsonrpc |-> "2.0",
   id |-> request_id,
   result |-> [content |-> <<[type |-> "text", text |-> [repr |-> result]]>>]]

\* The envelope call_tool builds around a handler's returned mapping
ToolResult(request_id, result) ==
  [jsonrpc |-> "2.0",
   id |-> request_id,
   result |-> [content |-> <<[type |-> "text", text |-> JsonDumps(result)]>>]]

\* What a method of the server hands back to handle_request: a response, or
\* an exception that escapes the method.
Responds(response, host, invoked) ==
  [raised |-> FALSE, msg |-> <<>>, response |-> response, host |-> host, invoked |-> invoked]
Escapes(msg, host, invoked) ==
  [raised |-> TRUE, msg |-> msg, response |-> [jsonrpc |-> "2.0"], host |-> host, invoked |-> invoked]

\* The record kept of one handler invocation: the tool, the arguments it was
\* called with and how it ended
Invocation(tool, args, o) ==
  [tool |-> tool, args |-> args, raised |-> o.raised, msg |-> o.msg, result |-> o.result]

\* Variant of Registered: the name is compared ignoring letter case
Registered_IgnoringCase(tool_name, tools) ==
  IsStr(tool_name) /\ \E i \in 1..Len(tools) : Lower(tool_name.s) = tools[i]

\* The tool-name tests of the if/elif chain of call_tool: == on the name
Registered(tool_name, tools) == \E i \in 1..Len(tools) : tool_name = PyStr(tools[i])

\* Variant of Blender_tool_failed: str(e) is left out of the message
Blender_tool_failed_NoDetail(request_id, msg) ==
  Blender_error_response(request_id, -32603, <<"Tool execution error">>, Traceback)

\* except Exception in call_tool
Blender_tool_failed(request_id, msg) ==
  Blender_error_response(request_id, -32603, <<"Tool execution error: ">> \o msg, Traceback)

\* the else branch of the chain in call_tool
Blender_unknown_tool(request_id, tool_name) ==
  Blender_error_response(request_id, -32601, <<"Unknown tool: ", Str(tool_name)>>, NoData)

\* Variant of Blender_call_tool: arguments is read without the default {}
Blender_call_tool_NoDefault(params, request_id, safe_mode, host) ==
  IF ~IsDict(params) THEN {Escapes(AttributeErrorMsg(params, "get"), host, <<>>)}
  ELSE LET tool_name == Get(params, "name", PyStr(""))
           arguments == Get(params, "arguments", PyNone)
       IN IF Registered(tool_name, BlenderChain)
          THEN {IF o.raised
                THEN Responds(Blender_tool_failed(request_id, o.msg),
                              o.host, <<Invocation(tool_name.s, arguments, o)>>)
                ELSE Responds(ToolResult(request_id, o.result),
                              o.host, <<Invocation(tool_name.s, arguments, o)>>)
                : o \in BlenderHandler(tool_name.s, arguments, safe_mode, host)}
          ELSE {Responds(Blender_unknown_tool(request_id, tool_name), host, <<>>)}

\* Variant of Blender_call_tool: the branches are `if`, not `elif`, so the
\* final else belongs to the last test alone and also runs after the handler
\* of any other tool has returned
Blender_call_tool_IfChain(params, request_id, safe_mode, host) ==
  IF ~IsDict(params) THEN {Escapes(AttributeErrorMsg(params, "get"), host, <<>>)}
  ELSE LET tool_name == Get(params, "name", PyStr(""))
           arguments == Get(params, "arguments", EmptyDict)
       IN IF Registered(tool_name, BlenderChain)
          THEN {IF o.raised
                THEN Responds(Blender_tool_failed(request_id, o.msg),
                              o.host, <<Invocation(tool_name.s, arguments, o)>>)
                ELSE IF tool_name.s = BlenderChain[Len(BlenderChain)]
                THEN Responds(ToolResult(request_id, o.result),
                              o.host, <<Invocation(tool_name.s, arguments, o)>>)
                ELSE Responds(Blender_unknown_tool(request_id, tool_name),
                              o.host, <<Invocation(tool_name.s, arguments, o)>>)
                : o \in BlenderHandler(tool_name.s, arguments, safe_mode, host)}
          ELSE {Responds(Blender_unknown_tool(request_id, tool_name), host, <<>>)}

Blender_call_tool(params, request_id, safe_mode, host) ==
  IF ~IsDict(params) THEN {Escapes(AttributeErrorMsg(params, "get"), host, <<>>)}
  ELSE LET tool_name == Get(params, "name", PyStr(""))
           arguments == Get(params, "arguments", EmptyDict)
       IN IF Registered(tool_name, BlenderChain)
          THEN {IF o.raised
                THEN Responds(Blender_tool_failed(request_id, o.msg),
                              o.host, <<Invocation(tool_name.s, arguments, o)>>)
                ELSE Responds(ToolResult(request_id, o.result),
                              o.host, <<Invocation(tool_name.s, arguments, o)>>)
                : o \in BlenderHandler(tool_name.s, arguments, safe_mode, host)}
          ELSE {Responds(Blender_unknown_tool(request_id, tool_name), host, <<>>)}

\* Variant of Blender_unknown_method: reported as an internal error
Blender_unknown_method_Internal(request_id, method) ==
  Blender_error_response(request_id, -32603, <<"Internal error: ", Str(method)>>, NoData)

\* the else branch of the method chain in handle_request
Blender_unknown_method(request_id, method) ==
  Blender_error_response(request_id, -32601, <<"Method not found: ", Str(method)>>, NoData)

\* handle_request: what it returns, and the request_id, host state and
\* handler invocations it leaves behind.
Handled(response, request_id, host, invoked) ==
  [response |-> response, request_id |-> request_id, host |-> host, invoked |-> invoked]

Blender_handle_request(request, old_request_id, version, capabilities, safe_mode, host) ==
  IF ~IsDict(request)
  THEN \* request.get raises before self.request_id is assigned
       {Handled(Blender_error_response(old_request_id, -32603,
                  <<"Internal error: ">> \o AttributeErrorMsg(request, "get"), Traceback),
                old_request_id, host, <<>>)}
  ELSE LET method == Get(request, "method", PyStr(""))
           params == Get(request, "params", EmptyDict)
           request_id == Get(request, "id", PyNone)
       IN CASE method = PyStr("initialize") ->
                 {Handled(Blender_initialize(request_id, version, capabilities),
                          request_id, host, <<>>)}
            [] method = PyStr("tools/list") ->
                 {Handled(Blender_list_tools(request_id), request_id, host, <<>>)}
            [] method = PyStr("tools/call") ->
                 {IF c.raised
                  THEN Handled(Blender_error_response(request_id, -32603,
                                 <<"Internal error: ">> \o c.msg, Traceback),
                               request_id, c.host, c.invoked)
                  ELSE Handled(c.response, request_id, c.host, c.invoked)
                  : c \in Blender_call_tool(params, request_id, safe_mode, host)}
            [] method = PyStr("notifications/initialized") ->
                 {Handled([jsonrpc |-> "2.0", result |-> PyNone], request_id, host, <<>>)}
            [] OTHER ->
                 {Handled(Blender_unknown_method(request_id, method), request_id, host, <<>>)}

(***************************************************************************)
(* Response envelopes and dispatch, GitHub server                          *)
(***************************************************************************)
GitHub_error_response(request_id, code, message) ==
  [jsonrpc |-> "2.0",
   id |-> request_id,
   error |-> [code |-> code, message |-> message]]

GitHub_initialize(request_id, version, capabilities) ==
  [jsonrpc |-> "2.0",
   id |-> request_id,
   result |-> [protocolVersion |-> "2024-11-05",
               capabilities |-> capabilities,
               serverInfo |-> [name |-> "github-mcp-server", version |-> version]]]

GitHub_list_tools(request_id) ==
  [jsonrpc |-> "2.0",
   id |-> request_id,
   result |-> [tools |-> GitHub_tools]]

GitHub_call_tool(params, request_id, github_token, host) ==
  IF ~IsDict(params) THEN {Escapes(AttributeErrorMsg(params, "get"), host, <<>>)}
  ELSE LET tool_name == Get(params, "name", PyStr(""))
           arguments == Get(params, "arguments", EmptyDict)
       IN IF Registered(tool_name, GitHubChain)
          THEN {IF o.raised
                THEN Responds(GitHub_error_response(request_id, -32603,
                                <<"Tool execution error: ">> \o o.msg),
                              o.host, <<Invocation(tool_name.s, arguments, o)>>)
                ELSE Responds(ToolResult(request_id, o.result),
                              o.host, <<Invocation(tool_name.s, arguments, o)>>)
                : o \in GitHubHandler(tool_name.s, arguments, github_token, host)}
          ELSE {Responds(GitHub_error_response(request_id, -32601,
                           <<"Unknown tool: ", Str(tool_name)>>),
                         host, <<>>)}

GitHub_handle_request(request, old_request_id, version, capabilities, github_token, host) ==
  IF ~IsDict(request)
  THEN {Handled(GitHub_error_response(old_request_id, -32603,
                  <<"Internal error: ">> \o AttributeErrorMsg(request, "get")),
                old_request_id, host, <<>>)}
  ELSE LET method == Get(request, "method", PyStr(""))
           params == Get(request, "params", EmptyDict)
           request_id == Get(request, "id", PyNone)
       IN CASE method = PyStr("initialize") ->
                 {Handled(GitHub_initialize(request_id, version, capabilities),
                          request_id, host, <<>>)}
            [] method = PyStr("tools/list") ->
                 {Handled(GitHub_list_tools(request_id), request_id, host, <<>>)}
            [] method = PyStr("tools/call") ->
                 {IF c.raised
                  THEN Handled(GitHub_error_response(request_id, -32603,
                                 <<"Internal error: ">> \o c.msg),
                               request_id, c.host, c.invoked)
                  ELSE Handled(c.response, request_id, c.host, c.invoked)
                  : c \in GitHub_call_tool(params, request_id, github_token, host)}
            [] OTHER ->
                 {Handled(GitHub_error_response(request_id, -32601,
                            <<"Method not found: ", Str(method)>>),
                          request_id, host, <<>>)}

(***************************************************************************)
(* Input lines.  A line of stdin is blank, undecodable (bytes the strict   *)
(* utf-8 decoder of stdin rejects), malformed (json.loads raises           *)
(* JSONDecodeError), deep (valid JSON nested beyond the recursion limit of *)
(* the decoder, json.loads raises RecursionError) or the text of a JSON    *)
(* value doc.                                                              *)
(***************************************************************************)
Line(kind, doc) == [kind |-> kind, doc |-> doc]
NoLine == Line("none", PyNone)

\* A dict literal; Absent marks a key the literal leaves out.
Absent == [py |-> "absent"]
Dict(r) == PyDict([k \in {key \in DOMAIN r : r[key] # Absent} |-> r[k]])

Ids == {Absent, PyNone, PyInt(1), Surrogate}

OtherMethods ==
  {Absent, PyStr("initialize"), PyStr("tools/list"),
   PyStr("notifications/initialized"), PyStr("resources/list")}

ArgsFor(name) ==
  CASE name = PyStr("create_object") ->
         {Absent, PyNone, EmptyDict,
          Dict([type |-> PyStr("cube"), name |-> PyStr("Ghost")]),
          Dict([type |-> PyStr("dodecahedron"), name |-> Absent]),
          Dict([type |-> Absent, name |-> PyInt(1)])}
    [] name = PyStr("delete_object") ->
         {Absent, EmptyDict, Dict([name |-> PyStr("Cube")]), Dict([name |-> PyStr("Ghost")])}
    [] name = PyStr("create_material") ->
         {EmptyDict,
          Dict([material_name |-> PyStr("Red"), object_name |-> Absent]),
          Dict([material_name |-> PyStr("Red"), object_name |-> PyStr("Cube")]),
          Dict([material_name |-> PyStr("Red"), object_name |-> PyStr("Ghost")])}
    [] name = PyStr("create_animation") ->
         {EmptyDict,
          Dict([object_name |-> PyStr("Cube"), property |-> Absent]),
          Dict([object_name |-> PyStr("Ghost"), property |-> PyStr("location")])}
    [] name = PyStr("execute_python") -> {Absent, Dict([code |-> PyStr("import os")])}
    [] name = PyStr("manage_scenes") ->
         {Dict([action |-> PyStr("create"), scene_name |-> PyStr("Extra")]),
          Dict([action |-> PyStr("DELETE"), scene_name |-> PyStr("Scene")]),
          Dict([action |-> PyStr("delete"), scene_name |-> PyStr("Extra")]),
          Dict([action |-> PyStr("switch"), scene_name |-> PyStr("Extra")])}
    [] name = PyStr("manage_collections") ->
         {Dict([action |-> PyStr("add_object"), collection_name |-> PyStr("Props"), object_name |-> PyStr("Cube")]),
          Dict([action |-> PyStr("LINK_OBJECT"), collection_name |-> PyStr("Props"), object_name |-> PyStr("Cube")]),
          Dict([action |-> PyStr("remove_object"), collection_name |-> PyStr("Props"), object_name |-> PyStr("Cube")]),
          Dict([action |-> PyStr("unlink_object"), collection_name |-> PyStr("Props"), object_name |-> PyStr("Cube")]),
          Dict([action |-> PyStr("create"), collection_name |-> PyStr("Props"), object_name |-> Absent]),
          Dict([action |-> PyStr("delete"), collection_name |-> PyStr("Ghost"), object_name |-> Absent])}
    [] name = PyStr("mesh_operations") ->
         {Dict([object_name |-> PyStr("Cube"), operation |-> PyStr("subdivide"), iterations |-> Absent]),
          Dict([object_name |-> PyStr("Cube"), operation |-> PyStr("subdivide"), iterations |-> PyStr("many")]),
          Dict([object_name |-> PyStr("Cube"), operation |-> PyStr("explode"), iterations |-> Absent])}
    [] name = PyStr("uv_operations") ->
         {Dict([object_name |-> PyStr("Cube"), operation |-> PyStr("lightmap_pack"), angle_limit |-> Absent]),
          Dict([object_name |-> PyStr("Cube"), operation |-> PyStr("explode"), angle_limit |-> Absent])}
    [] name = PyStr("render_scene") -> {PyNone, EmptyDict}
    [] name = PyStr("create_issue") -> {PyNone, EmptyDict}
    [] name = PyStr("search_repositories") -> {EmptyDict}
    [] OTHER -> {Absent, EmptyDict}

ToolNames ==
  {Absent, PyStr("create_object"), PyStr("Create_Object"), PyStr("delete_object"),
   PyStr("create_material"), PyStr("create_animation"),
   PyStr("execute_python"), PyStr("render_scene"), PyStr("create_issue"),
   PyStr("search_repositories"), PyStr("nonexistent_tool"), PyInt(5)}

CallParams ==
  {Absent, PyNone, PyList} \cup
  {Dict([name |-> n, arguments |-> a]) : <<n, a>> \in {<<n, a>> \in ToolNames \X UNION {ArgsFor(m) : m \in ToolNames} : a \in ArgsFor(n)}}

\* Calls of the tools that manage scenes, collections and edit mode
SceneToolNames ==
  {PyStr("manage_scenes"), PyStr("manage_collections"),
   PyStr("mesh_operations"), PyStr("uv_operations")}

SceneCallParams ==
  {Dict([name |-> n, arguments |-> a]) : <<n, a>> \in {<<n, a>> \in SceneToolNames \X UNION {ArgsFor(m) : m \in SceneToolNames} : a \in ArgsFor(n)}}

Requests ==
  {Dict([id |-> i, method |-> m, params |-> p]) :
     <<i, m, p>> \in (Ids \X OtherMethods \X {Absent, PyNone})
                     \cup (Ids \X {PyStr("initialize")} \X {PyList})
                     \cup (Ids \X {PyStr("tools/call")} \X CallParams)
                     \cup ({PyInt(1)} \X {PyStr("tools/call")} \X SceneCallParams)}

Docs == Requests \cup {PyList, PyInt(5), PyStr("hello"), PyNone}

\* json.loads(line)
json_loads(l) ==
  CASE l.kind = "json" -> [raised |-> "", value |-> l.doc]
    [] l.kind = "malformed" -> [raised |-> "JSONDecodeError", value |-> PyNone]
    [] l.kind = "deep" -> [raised |-> "RecursionError", value |-> PyNone]

JSONDecodeErrorMsg == <<"Expecting value: line 1 column 1 (char 0)">>
RecursionErrorMsg == <<"maximum recursion depth exceeded while decoding a JSON array from a unicode string">>
UnicodeDecodeErrorMsg == <<"'utf-8' codec can't decode byte 0xff in position 0: invalid start byte">>
UnicodeEncodeErrorMsg == <<"'utf-8' codec can't encode character '\\ud800' in position 26: surrogates not allowed">>

\* print(json.dumps(response, ensure_ascii=False)) succeeds unless the text
\* holds a lone surrogate.
Encodable(response) == "id" \in DOMAIN response => response.id # Surrogate

(***************************************************************************)
(* add_mcp_config.py                                                       *)
(*                                                                         *)
(* A file is absent, or holds a text: the text of a JSON document doc laid *)
(* out with some indentation ("json"), a text that is not JSON             *)
(* ("malformed"), or the beginning of the text of doc, cut where writing   *)
(* it stopped ("truncated").                                               *)
(***************************************************************************)
NoFile == [kind |-> "none"]
FileText(kind, doc, indent) == [kind |-> kind, doc |-> doc, indent |-> indent]

BlenderName == "unity-blender-mcp-v2"
GitHubName == "unity-github-mcp-updated"

NEW_CONFIGS ==
  (BlenderName :>
     PyDict(("_doc" :> PyStr("Unity Blender MCP Server - Verbeterde versie"))
         @@ ("command" :> PyStr("/Applications/Blender.app/Contents/MacOS/Blender"))
         @@ ("args" :> PyListOf(<<"--background", "--python",
                 "/Users/innovars_lab/Downloads/coplay_orchestrator_v4/Assets/MCP/blender_mcp_server.py">>))
         @@ ("env" :> EmptyDict)
         @@ ("disabled" :> PyBool(FALSE))))
  @@
  (GitHubName :>
     PyDict(("_doc" :> PyStr("Unity GitHub MCP Server - Updated versie"))
         @@ ("command" :> PyStr("python3"))
         @@ ("args" :> PyListOf(<<
                 "/Users/innovars_lab/Downloads/coplay_orchestrator_v4/Assets/MCP/github_mcp_example.py">>))
         @@ ("env" :> PyDict([GITHUB_TOKEN |-> PyStr("")]))
         @@ ("disabled" :> PyBool(FALSE))))

\* NEW_CONFIGS.items(): the names in the order of the literal
NewNames == <<BlenderName, GitHubName>>

\* json.load(f)
json_load(file) ==
  IF file.kind = "json" THEN [raised |-> FALSE, value |-> file.doc]
  ELSE [raised |-> TRUE, value |-> PyNone]

\* A string of the value holds a lone surrogate
RECURSIVE HasSurrogate(_)
HasSurrogate(v) ==
  \/ v = Surrogate
  \/ (IsDict(v) /\ \E k \in DOMAIN v.d : HasSurrogate(v.d[k]))

\* open(MCP_JSON_PATH, 'w', encoding='utf-8') and json.dump(config, f,
\* indent=2, ensure_ascii=False): opening empties the file, and the text is
\* written piece by piece, up to the first string utf-8 cannot encode.
json_dump(config) ==
  IF HasSurrogate(config)
  THEN [raised |-> TRUE, file |-> FileText("truncated", config, 2)]
  ELSE [raised |-> FALSE, file |-> FileText("json", config, 2)]

\* Variant of Replaces: an entry of the same name is always replaced
Replaces_Always(old_config, new_config) == TRUE

\* old_config.get("disabled", False) and not new_config.get("disabled", False)
Replaces(old_config, new_config) ==
  /\ Truthy(Get(old_config, "disabled", PyBool(FALSE)))
  /\ ~Truthy(Get(new_config, "disabled", PyBool(FALSE)))

\* The loop over NEW_CONFIGS.items(), from the i-th name on: the entries
\* of mcpServers and the flag updated it ends with, or raised.
RECURSIVE Merge(_, _, _)
Merge(servers, updated, i) ==
  IF i > Len(NewNames) THEN [raised |-> FALSE, servers |-> servers, updated |-> updated]
  ELSE LET name == NewNames[i] IN
    IF name \notin DOMAIN servers
    THEN Merge((name :> NEW_CONFIGS[name]) @@ servers, TRUE, i + 1)
    ELSE IF ~IsDict(servers[name])
         THEN [raised |-> TRUE, servers |-> servers, updated |-> updated]
    ELSE IF Replaces(servers[name], NEW_CONFIGS[name])
         THEN Merge((name :> NEW_CONFIGS[name]) @@ servers, TRUE, i + 1)
         ELSE Merge(servers, updated, i + 1)

\* What one call of update_mcp_json does to the two files: result is
\* "True" or "False" for the value returned, "raised" when an exception
\* leaves the function; copied and wrote tell whether shutil.copy2 ran and
\* whether mcp.json was opened for writing.
Run(result, file, bak, copied, wrote) ==
  [result |-> result, mcp_json |-> file, backup |-> bak, copied |-> copied, wrote |-> wrote]

update_mcp_json(file, bak) ==
  IF file = NoFile THEN Run("False", file, bak, FALSE, FALSE)
  ELSE LET loaded == json_load(file) IN
    IF loaded.raised THEN Run("raised", file, bak, FALSE, FALSE)
    ELSE IF ~IsDict(loaded.value) THEN Run("raised", file, bak, FALSE, FALSE)
    ELSE LET config == IF "mcpServers" \in DOMAIN loaded.value.d
                       THEN loaded.value
                       ELSE PyDict(("mcpServers" :> EmptyDict) @@ loaded.value.d)
         IN
      IF ~IsDict(config.d["mcpServers"]) THEN Run("raised", file, bak, FALSE, FALSE)
      ELSE LET merged == Merge(config.d["mcpServers"].d, FALSE, 1) IN
        IF merged.raised THEN Run("raised", file, bak, FALSE, FALSE)
        ELSE IF merged.updated
        THEN LET dumped == json_dump(PyDict(("mcpServers" :> PyDict(merged.servers)) @@ config.d))
             IN Run(IF dumped.raised THEN "raised" ELSE "True", dumped.file, file, TRUE, TRUE)
        ELSE Run("False", file, bak, FALSE, FALSE)

\* The mcp.json files the model starts from
OldEntries ==
  {Absent, PyNone,
   PyDict([command |-> PyStr("old")]),
   PyDict([command |-> PyStr("old"), disabled |-> PyBool(TRUE)]),
   PyDict([command |-> PyStr("old"), disabled |-> PyBool(FALSE)])}

ServerMaps ==
  {Absent} \cup
  {Dict((BlenderName :> b) @@ (GitHubName :> g) @@ ("filesystem" :> o)) :
     <<b, g, o>> \in (OldEntries \cup {NEW_CONFIGS[BlenderName]})
                     \X {Absent, PyDict([command |-> PyStr("old")]), NEW_CONFIGS[GitHubName]}
                     \X {Absent, PyDict([command |-> PyStr("npx")])}}

ConfigDocs ==
  {Dict([mcpServers |-> m, theme |-> t]) :
     <<m, t>> \in ServerMaps \X {Absent, PyStr("dark"), Surrogate}}
  \cup {PyList, Dict([mcpServers |-> PyList, theme |-> Absent])}

ConfigFiles ==
  {NoFile, FileText("malformed", PyNone, 0)} \cup
  {FileText("json", doc, indent) : <<doc, indent>> \in ConfigDocs \X {2, 4}}

BackupFiles == {NoFile, FileText("json", EmptyDict, 4)}

(***************************************************************************)
(* State                                                                   *)
(***************************************************************************)
VARIABLES
  mcp_json,      \* the file at MCP_JSON_PATH
  backup,        \* the file at MCP_JSON_PATH.with_suffix('.json.backup')
  runs,          \* the runs of add_mcp_config.py so far, with the files before
  server,        \* which of the two programs runs: "blender" or "github"
  github_token,  \* GitHubMCPServer.github_token
  version,       \* self.version
  capabilities,  \* self.capabilities
  safe_mode,     \* BlenderMCPServer.safe_mode
  request_id,    \* self.request_id
  host,          \* the state of the host application (bpy.data)
  pc,            \* "read" at the top of the loop, otherwise how main ended
  lineno,        \* number of lines read from stdin
  nout,          \* number of lines written to stdout
  line,          \* the last line read
  returned,      \* what handle_request returned for that line, if it was called
  written,       \* the response lines written for that line
  invoked,       \* the tool handlers invoked for that line
  nonblank,      \* number of lines read that were not blank
  pending,       \* lines printed to stdout and not yet flushed
  repeated,      \* the line repeats the tool call of the line before it
  first          \* the first tools/list and the first initialize result returned

config == <<server, github_token, version, capabilities, safe_mode>>
files == <<mcp_json, backup, runs>>
vars == <<mcp_json, backup, runs, server, github_token, version, capabilities, safe_mode, request_id,
          host, pc, lineno, nout, line, returned, written, invoked,
          nonblank, pending, repeated, first>>

\* Variant of MainParseError: stamped with the id of the last request
MainParseError_StaleId(msg) ==
  [jsonrpc |-> "2.0", id |-> request_id,
   error |-> [code |-> -32700, message |-> <<"Parse error: ">> \o msg]]

\* The error envelopes main builds itself
MainParseError(msg) ==
  [jsonrpc |-> "2.0", id |-> PyNone,
   error |-> [code |-> -32700, message |-> <<"Parse error: ">> \o msg]]
MainInternalError(msg) ==
  [jsonrpc |-> "2.0", id |-> PyNone,
   error |-> [code |-> -32603, message |-> <<"Internal error: ">> \o msg]]

Init ==
  /\ mcp_json = NoFile
  /\ backup = NoFile
  /\ runs = <<>>
  /\ server \in {"blender", "github"}
  /\ github_token \in (IF server = "github" THEN {"", "ghp_token"} ELSE {""})
  /\ version = "1.0.0"
  /\ capabilities = [tools |-> [listChanged |-> TRUE], resources |-> <<>>, prompts |-> <<>>]
  /\ safe_mode = TRUE
  /\ request_id = PyNone
  /\ host = [objects |-> {"Cube"}, materials |-> {}, slots |-> {}, executed |-> FALSE,
             scenes |-> {"Scene"}, scene |-> "Scene",
             collections |-> {"Props"}, links |-> {}, mode |-> "OBJECT"]
  /\ pc = "read"
  /\ lineno = 0
  /\ nout = 0
  /\ line = NoLine
  /\ returned = <<>>
  /\ written = <<>>
  /\ invoked = <<>>
  /\ nonblank = 0
  /\ pending = <<>>
  /\ repeated = FALSE
  /\ first = [list |-> <<>>, init |-> <<>>]

\* What handle_request returned the first time it answered tools/list and
\* the first time it answered initialize, with the number of the line
Remember(f, request, response, n) ==
  LET method == IF IsDict(request) THEN Get(request, "method", PyStr("")) ELSE PyNone
      answer == <<[at |-> n, response |-> response]>>
  IN CASE method = PyStr("tools/list") /\ f.list = <<>> -> [f EXCEPT !.list = answer]
       [] method = PyStr("initialize") /\ f.init = <<>> -> [f EXCEPT !.init = answer]
       [] OTHER -> f

\* The call inv invokes the tool that the call before it invoked, with the
\* same arguments, and that call returned
Again(before, inv) ==
  /\ Len(before) = 1 /\ Len(inv) = 1
  /\ ~before[1].raised
  /\ inv[1].tool = before[1].tool
  /\ inv[1].args = before[1].args

\* Variant of Reads: print without sys.stdout.flush(), the lines stay in the
\* buffer of stdout
Reads_Unflushed(l, ret, w, inv) ==
  /\ lineno' = lineno + 1
  /\ nonblank' = nonblank + (IF l.kind = "blank" THEN 0 ELSE 1)
  /\ line' = l
  /\ returned' = ret
  /\ written' = w
  /\ pending' = pending \o w
  /\ nout' = nout
  /\ invoked' = inv
  /\ repeated' = Again(invoked, inv)
  /\ first' = IF ret # <<>> THEN Remember(first, l.doc, ret[1], lineno + 1) ELSE first

\* A line is read: the bookkeeping every reading step shares.  Each print
\* is followed by sys.stdout.flush(), which hands the buffered lines over.
Reads(l, ret, w, inv) ==
  /\ lineno' = lineno + 1
  /\ nonblank' = nonblank + (IF l.kind = "blank" THEN 0 ELSE 1)
  /\ line' = l
  /\ returned' = ret
  /\ written' = w
  /\ pending' = <<>>
  /\ nout' = nout + Len(pending \o w)
  /\ invoked' = inv
  /\ repeated' = Again(invoked, inv)
  /\ first' = IF ret # <<>> THEN Remember(first, l.doc, ret[1], lineno + 1) ELSE first

\* The host states the model follows
WithinBounds(h) ==
  /\ Cardinality(h.objects) <= MaxObjects
  /\ Cardinality(h.materials) <= MaxMaterials
  /\ Cardinality(h.scenes) <= MaxScenes

CanRead(srv) == server = srv /\ pc = "read" /\ lineno < MaxLines

(***************************************************************************)
(* main of blender_mcp_server.py                                           *)
(***************************************************************************)
\* readline returns "": break
Blender_ReadEOF ==
  /\ server = "blender" /\ pc = "read"
  /\ pc' = "eof"
  /\ UNCHANGED <<files, config, request_id, host, lineno, nout, line, returned, written, invoked,
               nonblank, pending, repeated, first>>

\* except KeyboardInterrupt: pass
Blender_KeyboardInterrupt ==
  /\ server = "blender" /\ pc = "read"
  /\ pc' = "interrupted"
  /\ UNCHANGED <<files, config, request_id, host, lineno, nout, line, returned, written, invoked,
               nonblank, pending, repeated, first>>

\* readline raises UnicodeDecodeError: the except Exception around the loop
\* writes an error line and main returns
Blender_ReadUndecodable ==
  /\ CanRead("blender")
  /\ Reads(Line("undecodable", PyNone), <<>>, <<MainInternalError(UnicodeDecodeErrorMsg)>>, <<>>)
  /\ pc' = "returned"
  /\ UNCHANGED <<files, config, request_id, host>>

\* line.strip() is empty: continue
Blender_ReadBlank ==
  /\ CanRead("blender")
  /\ Reads(Line("blank", PyNone), <<>>, <<>>, <<>>)
  /\ UNCHANGED <<files, config, request_id, host, pc>>

\* Variant of Blender_HandleLine: answering initialize clears listChanged in
\* self.capabilities
Blender_HandleLine_Renegotiating ==
  /\ CanRead("blender")
  /\ \E doc \in Docs :
       \E h \in Blender_handle_request(json_loads(Line("json", doc)).value, request_id,
                                       version, capabilities, safe_mode, host) :
         /\ Encodable(h.response)
         /\ WithinBounds(h.host)
         /\ Reads(Line("json", doc), <<h.response>>, <<h.response>>, h.invoked)
         /\ request_id' = h.request_id
         /\ host' = h.host
         /\ capabilities' = IF IsDict(doc) /\ Get(doc, "method", PyStr("")) = PyStr("initialize")
                            THEN [capabilities EXCEPT !.tools.listChanged = FALSE]
                            ELSE capabilities
  /\ UNCHANGED <<files, server, github_token, version, safe_mode, pc>>

\* json.loads, handle_request and print all succeed
Blender_HandleLine ==
  /\ CanRead("blender")
  /\ \E doc \in Docs :
       \E h \in Blender_handle_request(json_loads(Line("json", doc)).value, request_id,
                                       version, capabilities, safe_mode, host) :
         /\ Encodable(h.response)
         /\ WithinBounds(h.host)
         /\ Reads(Line("json", doc), <<h.response>>, <<h.response>>, h.invoked)
         /\ request_id' = h.request_id
         /\ host' = h.host
  /\ UNCHANGED <<files, config, pc>>

\* except json.JSONDecodeError
Blender_ParseError ==
  /\ CanRead("blender")
  /\ LET l == Line("malformed", PyNone) IN
       /\ json_loads(l).raised = "JSONDecodeError"
       /\ Reads(l, <<>>, <<MainParseError(JSONDecodeErrorMsg)>>, <<>>)
  /\ UNCHANGED <<files, config, request_id, host, pc>>

\* except Exception inside the loop: json.loads raised RecursionError, or
\* print raised UnicodeEncodeError after handle_request had run
Blender_InternalError ==
  /\ CanRead("blender")
  /\ \/ LET l == Line("deep", PyNone) IN
          /\ json_loads(l).raised = "RecursionError"
          /\ Reads(l, <<>>, <<MainInternalError(RecursionErrorMsg)>>, <<>>)
          /\ UNCHANGED <<request_id, host>>
     \/ \E doc \in Docs :
          \E h \in Blender_handle_request(json_loads(Line("json", doc)).value, request_id,
                                          version, capabilities, safe_mode, host) :
            /\ ~Encodable(h.response)
            /\ WithinBounds(h.host)
            /\ Reads(Line("json", doc), <<h.response>>, <<MainInternalError(UnicodeEncodeErrorMsg)>>, h.invoked)
            /\ request_id' = h.request_id
            /\ host' = h.host
  /\ UNCHANGED <<files, config, pc>>

(***************************************************************************)
(* main of github_mcp_example.py                                           *)
(***************************************************************************)
\* for line in sys.stdin: the iteration ends
GitHub_ReadEOF ==
  /\ server = "github" /\ pc = "read"
  /\ pc' = "eof"
  /\ UNCHANGED <<files, config, request_id, host, lineno, nout, line, returned, written, invoked,
               nonblank, pending, repeated, first>>

\* KeyboardInterrupt is not caught: the interpreter ends the process
GitHub_KeyboardInterrupt ==
  /\ server = "github" /\ pc = "read"
  /\ pc' = "interrupted"
  /\ UNCHANGED <<files, config, request_id, host, lineno, nout, line, returned, written, invoked,
               nonblank, pending, repeated, first>>

\* the iteration raises UnicodeDecodeError, which nothing catches
GitHub_ReadUndecodable ==
  /\ CanRead("github")
  /\ Reads(Line("undecodable", PyNone), <<>>, <<>>, <<>>)
  /\ pc' = "crashed"
  /\ UNCHANGED <<files, config, request_id, host>>

GitHub_ReadBlank ==
  /\ CanRead("github")
  /\ Reads(Line("blank", PyNone), <<>>, <<>>, <<>>)
  /\ UNCHANGED <<files, config, request_id, host, pc>>

GitHub_HandleLine ==
  /\ CanRead("github")
  /\ \E doc \in Docs :
       \E h \in GitHub_handle_request(json_loads(Line("json", doc)).value, request_id,
                                      version, capabilities, github_token, host) :
         /\ Encodable(h.response)
         /\ Reads(Line("json", doc), <<h.response>>, <<h.response>>, h.invoked)
         /\ request_id' = h.request_id
         /\ host' = h.host
  /\ UNCHANGED <<files, config, pc>>

GitHub_ParseError ==
  /\ CanRead("github")
  /\ LET l == Line("malformed", PyNone) IN
       /\ json_loads(l).raised = "JSONDecodeError"
       /\ Reads(l, <<>>, <<MainParseError(JSONDecodeErrorMsg)>>, <<>>)
  /\ UNCHANGED <<files, config, request_id, host, pc>>

\* json.loads raises RecursionError or print raises UnicodeEncodeError:
\* only JSONDecodeError is caught, the exception ends the process
GitHub_Uncaught ==
  /\ CanRead("github")
  /\ \/ LET l == Line("deep", PyNone) IN
          /\ json_loads(l).raised = "RecursionError"
          /\ Reads(l, <<>>, <<>>, <<>>)
          /\ UNCHANGED <<request_id, host>>
     \/ \E doc \in Docs :
          \E h \in GitHub_handle_request(json_loads(Line("json", doc)).value, request_id,
                                         version, capabilities, github_token, host) :
            /\ ~Encodable(h.response)
            /\ Reads(Line("json", doc), <<h.response>>, <<>>, h.invoked)
            /\ request_id' = h.request_id
            /\ host' = h.host
  /\ pc' = "crashed"
  /\ UNCHANGED <<files, config>>

Next ==
  \/ Blender_ReadEOF
  \/ Blender_KeyboardInterrupt
  \/ Blender_ReadUndecodable
  \/ Blender_ReadBlank
  \/ Blender_HandleLine
  \/ Blender_ParseError
  \/ Blender_InternalError
  \/ GitHub_ReadEOF
  \/ GitHub_KeyboardInterrupt
  \/ GitHub_ReadUndecodable
  \/ GitHub_ReadBlank
  \/ GitHub_HandleLine
  \/ GitHub_ParseError
  \/ GitHub_Uncaught

Spec == Init /\ [][Next]_vars

(***************************************************************************)
(* add_mcp_config.py run from the command line, some number of times, on   *)
(* the files it finds                                                      *)
(***************************************************************************)
InitConfig ==
  /\ mcp_json \in ConfigFiles
  /\ backup \in BackupFiles
  /\ runs = <<>>
  /\ server = "add_mcp_config"
  /\ github_token = ""
  /\ version = "1.0.0"
  /\ capabilities = [tools |-> [listChanged |-> TRUE], resources |-> <<>>, prompts |-> <<>>]
  /\ safe_mode = TRUE
  /\ request_id = PyNone
  /\ host = [objects |-> {"Cube"}, materials |-> {}, slots |-> {}, executed |-> FALSE,
             scenes |-> {"Scene"}, scene |-> "Scene",
             collections |-> {"Props"}, links |-> {}, mode |-> "OBJECT"]
  /\ pc = "read"
  /\ lineno = 0
  /\ nout = 0
  /\ line = NoLine
  /\ returned = <<>>
  /\ written = <<>>
  /\ invoked = <<>>
  /\ nonblank = 0
  /\ pending = <<>>
  /\ repeated = FALSE
  /\ first = [list |-> <<>>, init |-> <<>>]

\* The __main__ block: update_mcp_json() inside try/except Exception, which
\* prints the error
AddMcpConfig ==
  /\ server = "add_mcp_config"
  /\ Len(runs) < MaxRuns
  /\ LET run == update_mcp_json(mcp_json, backup) IN
       /\ mcp_json' = run.mcp_json
       /\ backup' = run.backup
       /\ runs' = Append(runs, [result |-> run.result, copied |-> run.copied, wrote |-> run.wrote,
                                 before |-> mcp_json, backup_before |-> backup,
                                 after |-> run.mcp_json, backup_after |-> run.backup])
  /\ UNCHANGED <<config, request_id, host, pc, lineno, nout, line, returned, written,
                 invoked, nonblank, pending, repeated, first>>

NextConfig == AddMcpConfig

SpecConfig == InitConfig /\ [][NextConfig]_vars

(***************************************************************************)
(* What the last line was, in the terms the properties use                 *)
(***************************************************************************)
IsRequest == line.kind = "json" /\ IsDict(line.doc)
ReqId == Get(line.doc, "id", PyNone)
ReqMethod == Get(line.doc, "method", PyStr(""))
ReqParams == Get(line.doc, "params", EmptyDict)
RecognizedMethods ==
  {PyStr("initialize"), PyStr("tools/list"), PyStr("tools/call"),
   PyStr("notifications/initialized")}
IsToolsCall == IsRequest /\ ReqMethod = PyStr("tools/call")
ServerTools == IF server = "blender" THEN BlenderTools ELSE GitHubTools
IsError(r, code) == "error" \in DOMAIN r /\ r.error.code = code
IsToolsList == IsRequest /\ ReqMethod = PyStr("tools/list")
IsInitialize == IsRequest /\ ReqMethod = PyStr("initialize")
ServerChain == IF server = "blender" THEN BlenderChain ELSE GitHubChain
ToolName == Get(ReqParams, "name", PyStr(""))
Arguments == Get(ReqParams, "arguments", EmptyDict)
ServerDescriptors == IF server = "blender" THEN Blender_tools ELSE GitHub_tools
\* The tools/call at hand names the i-th listed tool and passes a mapping
CallsListed(i) ==
  /\ IsToolsCall /\ IsDict(ReqParams)
  /\ ToolName = PyStr(ServerDescriptors[i].name)
  /\ IsDict(Arguments)

(***************************************************************************)
(* C1: a line that decodes to a request object with a non-null id gets     *)
(* exactly one response line, and the id of that response is the id of the *)
(* request, whatever the method.                                           *)
(***************************************************************************)
C1_OneResponseEchoingId ==
  (IsRequest /\ ReqId # PyNone) =>
     /\ Len(written) = 1
     /\ "id" \in DOMAIN written[1]
     /\ written[1].id = ReqId

(***************************************************************************)
(* C2: the id stamped on the response to a line is the id of the request   *)
(* on that line or null, never the id an earlier request left in           *)
(* request_id; a line that is not a request object has no id of its own.   *)
(***************************************************************************)
C2_NoStaleId ==
  \A i \in 1..Len(written) :
    "id" \in DOMAIN written[i] =>
       written[i].id \in {PyNone} \cup (IF IsRequest THEN {ReqId} ELSE {})

(***************************************************************************)
(* C3: a request whose id is null or absent gets no response line, except  *)
(* notifications/initialized, which gets one response whose result is null.*)
(***************************************************************************)
C3_NotificationsUnanswered ==
  (IsRequest /\ ReqId = PyNone) =>
     IF ReqMethod = PyStr("notifications/initialized")
     THEN /\ Len(written) = 1
          /\ "result" \in DOMAIN written[1]
          /\ written[1].result = PyNone
     ELSE Len(written) = 0

(***************************************************************************)
(* C4: no input line stops the process: main leaves its loop only on       *)
(* end-of-input or on an interrupt, and every line that is read and is not *)
(* blank is answered with a response line.                                 *)
(***************************************************************************)
C4_OnlyEofOrInterruptStops ==
  /\ pc \in {"read", "eof", "interrupted"}
  /\ (line.kind \notin {"none", "blank"} => Len(written) = 1)

C6_UnknownMethod ==
  (IsRequest /\ ReqMethod \notin RecognizedMethods) =>
     /\ Len(returned) = 1
     /\ IsError(returned[1], -32601)
     /\ "result" \notin DOMAIN returned[1]
     /\ invoked = <<>>

C6_Witness ==
  /\ IsRequest
  /\ "method" \notin DOMAIN line.doc.d
  /\ Len(returned) = 1
  /\ IsError(returned[1], -32601)
  /\ returned[1].error.message = <<"Method not found: ", "">>

(***************************************************************************)
(* C7: a tools/call whose name is not exactly, case-sensitively, a         *)
(* registered tool name is answered with error -32601, the message         *)
(* contains the given name, and no tool handler is invoked.                *)
(***************************************************************************)
C7_UnknownTool ==
  (IsToolsCall /\ IsDict(ReqParams)
     /\ ~(\E i \in 1..Len(ServerTools) : Get(ReqParams, "name", PyStr("")) = PyStr(ServerTools[i]))) =>
     /\ Len(returned) = 1
     /\ IsError(returned[1], -32601)
     /\ Contains(returned[1].error.message, Str(Get(ReqParams, "name", PyStr(""))))
     /\ invoked = <<>>

C7_Witness ==
  /\ server = "blender"
  /\ IsToolsCall /\ IsDict(ReqParams)
  /\ Get(ReqParams, "name", PyStr("")) = PyStr("Create_Object")
  /\ Len(returned) = 1
  /\ IsError(returned[1], -32601)
  /\ returned[1].error.message = <<"Unknown tool: ", "Create_Object">>

C9_ToolSuccessEnvelope ==
  (IsToolsCall /\ Len(invoked) = 1 /\ ~invoked[1].raised) =>
     /\ Len(returned) = 1
     /\ "error" \notin DOMAIN returned[1]
     /\ "result" \in DOMAIN returned[1]
     /\ DOMAIN returned[1].result = {"content"}
     /\ Len(returned[1].result.content) = 1
     /\ returned[1].result.content[1].type = "text"
     /\ returned[1].result.content[1].text = JsonDumps(invoked[1].result)

C9_Witness ==
  /\ IsToolsCall /\ Len(invoked) = 1 /\ ~invoked[1].raised
  /\ invoked[1].tool = "delete_object"
  /\ "Cube" \notin host.objects
  /\ Len(returned) = 1
  /\ returned[1].result.content[1].text = JsonDumps([success |-> TRUE, deleted |-> PyStr("Cube")])

(***************************************************************************)
(* C10: every response line written, by handle_request or by the error     *)
(* paths of main, has jsonrpc "2.0", has an id field, and has exactly one  *)
(* of the fields result and error.                                         *)
(***************************************************************************)
C10_EnvelopeShape ==
  \A i \in 1..Len(written) :
    /\ "jsonrpc" \in DOMAIN written[i]
    /\ written[i].jsonrpc = "2.0"
    /\ "id" \in DOMAIN written[i]
    /\ ("result" \in DOMAIN written[i]) # ("error" \in DOMAIN written[i])

(***************************************************************************)
(* C11: in both servers the set of tool names tools/list returns is the    *)
(* set of names for which tools/call dispatches to a handler: every listed *)
(* name is dispatched and no handler runs for a name that is not listed.   *)
(* The listed names are pairwise distinct, and every listed tool has a     *)
(* non-empty description and an inputSchema of type "object".              *)
(***************************************************************************)
C11_RegistryMatchesDispatch ==
  /\ IsToolsList =>
       /\ Len(returned) = 1
       /\ "result" \in DOMAIN returned[1]
       /\ LET tools == returned[1].result.tools IN
            /\ {tools[i].name : i \in 1..Len(tools)} = {ServerChain[i] : i \in 1..Len(ServerChain)}
            /\ \A i, j \in 1..Len(tools) : tools[i].name = tools[j].name => i = j
            /\ \A i \in 1..Len(tools) :
                 /\ tools[i].description # ""
                 /\ tools[i].inputSchema.type = "object"
  /\ (IsToolsCall /\ IsDict(ReqParams)) =>
       /\ (\E i \in 1..Len(ServerTools) : ToolName = PyStr(ServerTools[i])) <=> (Len(invoked) = 1)
       /\ Len(invoked) = 1 => ToolName = PyStr(invoked[1].tool)

C11_Witness ==
  /\ server = "blender"
  /\ IsToolsList
  /\ Len(returned) = 1
  /\ Len(returned[1].result.tools) = 25
  /\ returned[1].result.tools[25].name = "preview_ensure"

C13_InitializedRecognized ==
  (IsRequest /\ ReqMethod = PyStr("notifications/initialized")) =>
     /\ Len(returned) = 1
     /\ "error" \notin DOMAIN returned[1]
     /\ "result" \in DOMAIN returned[1]
     /\ returned[1].result = PyNone

(***************************************************************************)
(* C14: a request object whose method is initialize, whatever its params   *)
(* and whatever lines came before, makes handle_request return a success   *)
(* envelope: no error field, the id of the request, protocolVersion        *)
(* "2024-11-05", the capabilities descriptor the server was constructed    *)
(* with, and serverInfo with the server's name and version.                *)
(***************************************************************************)
C14_InitializeAlwaysSucceeds ==
  IsInitialize =>
     /\ Len(returned) = 1
     /\ DOMAIN returned[1] = {"jsonrpc", "id", "result"}
     /\ returned[1].id = ReqId
     /\ DOMAIN returned[1].result = {"protocolVersion", "capabilities", "serverInfo"}
     /\ returned[1].result.protocolVersion = "2024-11-05"
     /\ returned[1].result.capabilities =
          [tools |-> [listChanged |-> TRUE], resources |-> <<>>, prompts |-> <<>>]
     /\ returned[1].result.serverInfo =
          [name |-> IF server = "blender" THEN "blender-mcp-server" ELSE "github-mcp-server",
           version |-> "1.0.0"]

C14_Witness ==
  /\ server = "blender"
  /\ IsInitialize
  /\ ReqParams = PyList
  /\ lineno = 2
  /\ host.objects # {"Cube"}
  /\ Len(returned) = 1
  /\ returned[1].result.protocolVersion = "2024-11-05"

(***************************************************************************)
(* C15: responses are written in the order of the requests.  Whenever main *)
(* is about to read a line, every line read so far that was not blank has  *)
(* its response written and flushed: nothing is left in the buffer of      *)
(* stdout, and the number of response lines equals the number of non-blank *)
(* lines read.  A line gets at most one response line, written before the  *)
(* next line is read, so the k-th response answers the k-th non-blank line.*)
(***************************************************************************)
C15_StrictRequestOrder ==
  /\ pending = <<>>
  /\ nout <= nonblank
  /\ pc = "read" => nout = nonblank
  /\ Len(written) <= 1
  /\ written # <<>> => (line.kind \notin {"none", "blank"} /\ nout = nonblank)

C15_Witness ==
  /\ lineno = 2
  /\ nonblank = 1
  /\ line.kind = "json"
  /\ Len(written) = 1
  /\ nout = 1
  /\ pc = "read"

(***************************************************************************)
(* C16: every error response written has a code in {-32700, -32601,        *)
(* -32603}; -32700 is written only for a line that is not valid JSON,      *)
(* -32601 only for a request whose method is none of the four recognized   *)
(* methods or a tools/call whose tool name is not registered; every other  *)
(* failure is reported with -32603.                                        *)
(***************************************************************************)
C16_ErrorCodes ==
  \A i \in 1..Len(written) :
    "error" \in DOMAIN written[i] =>
       /\ written[i].error.code \in {-32700, -32601, -32603}
       /\ written[i].error.code = -32700 => line.kind = "malformed"
       /\ written[i].error.code = -32601 =>
            /\ IsRequest
            /\ \/ ReqMethod \notin RecognizedMethods
               \/ /\ IsToolsCall
                  /\ IsDict(ReqParams)
                  /\ ~(\E j \in 1..Len(ServerTools) : ToolName = PyStr(ServerTools[j]))

(***************************************************************************)
(* C17: protocol-level errors are detected before any domain logic runs:   *)
(* a line that is answered with error -32700 or -32601 invokes no tool     *)
(* handler and leaves the host state (objects, materials and the rest) and *)
(* the server's safe_mode, version and capabilities as they were.          *)
(***************************************************************************)
C17_ProtocolErrorsTouchNothing ==
  [][(/\ lineno' = lineno + 1
      /\ \E i \in 1..Len(written') :
           IsError(written'[i], -32700) \/ IsError(written'[i], -32601))
     => /\ invoked' = <<>>
        /\ host' = host
        /\ safe_mode' = safe_mode
        /\ version' = version
        /\ capabilities' = capabilities]_vars

C17_Witness ==
  /\ server = "blender"
  /\ lineno = 2
  /\ host.materials # {}
  /\ IsToolsCall /\ IsDict(ReqParams)
  /\ ToolName = PyStr("nonexistent_tool")
  /\ Len(written) = 1
  /\ IsError(written[1], -32601)
  /\ invoked = <<>>

(***************************************************************************)
(* C18: each handler validates its required fields: a tools/call to a      *)
(* registered tool whose arguments leave out a field that the tool's       *)
(* inputSchema lists as required is answered with error -32603, not with   *)
(* a success envelope, and the host state is left as it was.               *)
(***************************************************************************)
MissesRequired ==
  \E i \in 1..Len(ServerDescriptors) :
    /\ CallsListed(i)
    /\ "required" \in DOMAIN ServerDescriptors[i].inputSchema
    /\ \E k \in 1..Len(ServerDescriptors[i].inputSchema.required) :
         ServerDescriptors[i].inputSchema.required[k] \notin DOMAIN Arguments.d

C18_RequiredFieldsValidated ==
  [][(lineno' = lineno + 1 /\ MissesRequired')
     => /\ Len(returned') = 1
        /\ IsError(returned'[1], -32603)
        /\ host' = host]_vars

(***************************************************************************)
(* C19: a tools/call to a registered tool that passes, for an argument     *)
(* whose schema declares an enum, a value that is not one of the           *)
(* enumerated values (another value, or a listed value in another letter   *)
(* case) is answered with error -32603.                                    *)
(***************************************************************************)
OutsideEnum ==
  \E i \in 1..Len(ServerDescriptors) :
    /\ CallsListed(i)
    /\ "properties" \in DOMAIN ServerDescriptors[i].inputSchema
    /\ \E p \in DOMAIN ServerDescriptors[i].inputSchema.properties :
         /\ p \in DOMAIN Arguments.d
         /\ LET enum == ServerDescriptors[i].inputSchema.properties[p].enum
            IN ~(\E k \in 1..Len(enum) : Arguments.d[p] = PyStr(enum[k]))

C19_EnumValuesValidated ==
  OutsideEnum =>
     /\ Len(returned) = 1
     /\ IsError(returned[1], -32603)

(***************************************************************************)
(* C20: a tools/call whose handler takes the name of an object and is      *)
(* given a name no object has is answered with error -32603 whose message  *)
(* names the object, and the handler creates and modifies nothing.         *)
(***************************************************************************)
\* The arguments through which the handlers modelled take an object name
ObjectNameArgs ==
  {<<"delete_object", "name">>, <<"create_material", "object_name">>,
   <<"create_animation", "object_name">>}

\* The object names the tools/call at hand passes to its handler
NamedObjects ==
  IF IsToolsCall /\ IsDict(ReqParams) /\ IsDict(Arguments)
  THEN {Arguments.d[a[2]].s : a \in {b \in ObjectNameArgs :
                                        /\ ToolName = PyStr(b[1])
                                        /\ b[2] \in DOMAIN Arguments.d
                                        /\ IsStr(Arguments.d[b[2]])}}
  ELSE {}

C20_MissingEntityIsError ==
  [][(/\ lineno' = lineno + 1
      /\ server = "blender"
      /\ \E n \in NamedObjects' : n \notin host.objects)
     => /\ Len(returned') = 1
        /\ IsError(returned'[1], -32603)
        /\ \A n \in NamedObjects' : Contains(returned'[1].error.message, n)
        /\ host' = host]_vars

(***************************************************************************)
(* C21: the dispatcher is stateless across requests: the response to a     *)
(* line depends on the line and on the host state only, not on the lines   *)
(* handled before.  Whatever the history, handle_request returns one of    *)
(* the responses a server that has handled nothing yet returns for the     *)
(* same line in the same host state; in particular tools/list and          *)
(* tools/call are answered the same with or without an earlier initialize. *)
(***************************************************************************)
\* What a server that has handled no request can return for doc
FreshResponses(doc) ==
  IF server = "blender"
  THEN {h.response : h \in Blender_handle_request(doc, PyNone, version, capabilities,
                                                  safe_mode, host)}
  ELSE {h.response : h \in GitHub_handle_request(doc, PyNone, version, capabilities,
                                                 github_token, host)}

C21_Stateless ==
  [][(lineno' = lineno + 1 /\ line'.kind = "json" /\ returned' # <<>>)
     => returned'[1] \in FreshResponses(line'.doc)]_vars

(***************************************************************************)
(* C22: in a tools/call, params and arguments default to the empty         *)
(* mapping when they are absent or null: a request with params absent or   *)
(* null, or with name absent, is answered with the unknown-tool error      *)
(* -32601, and a call to a registered tool with arguments absent or null   *)
(* invokes the handler with an empty mapping.                              *)
(***************************************************************************)
ParamsAbsent == "params" \notin DOMAIN line.doc.d
NameAbsent == IsDict(ReqParams) /\ "name" \notin DOMAIN ReqParams.d
CallsRegistered ==
  /\ IsDict(ReqParams)
  /\ \E i \in 1..Len(ServerChain) : ToolName = PyStr(ServerChain[i])
ArgumentsAbsent == "arguments" \notin DOMAIN ReqParams.d

C22_DefaultsForAbsentOrNull ==
  IsToolsCall =>
     /\ (ParamsAbsent \/ ReqParams = PyNone \/ NameAbsent) =>
          /\ Len(returned) = 1
          /\ IsError(returned[1], -32601)
          /\ invoked = <<>>
     /\ (CallsRegistered /\ (ArgumentsAbsent \/ Arguments = PyNone)) =>
          /\ Len(invoked) = 1
          /\ invoked[1].args = EmptyDict

(***************************************************************************)
(* C22 as amended: the defaults apply to absent keys only.  A tools/call   *)
(* with params absent, or with name absent, is answered with the           *)
(* unknown-tool error -32601 for the name "" and invokes no handler; a     *)
(* call to a registered tool with arguments absent invokes the handler     *)
(* with an empty mapping.  A null is taken as given: params null is        *)
(* answered with error -32603 and invokes no handler, and arguments null   *)
(* invokes the handler with None.                                          *)
(***************************************************************************)
C22_DefaultsForAbsentOnly ==
  IsToolsCall =>
     /\ (ParamsAbsent \/ NameAbsent) =>
          /\ Len(returned) = 1
          /\ IsError(returned[1], -32601)
          /\ returned[1].error.message = <<"Unknown tool: ", "">>
          /\ invoked = <<>>
     /\ (~ParamsAbsent /\ ReqParams = PyNone) =>
          /\ Len(returned) = 1
          /\ IsError(returned[1], -32603)
          /\ returned[1].error.message = <<"Internal error: ">> \o AttributeErrorMsg(PyNone, "get")
          /\ invoked = <<>>
     /\ (CallsRegistered /\ ArgumentsAbsent) =>
          /\ Len(invoked) = 1
          /\ invoked[1].args = EmptyDict
     /\ (CallsRegistered /\ ~ArgumentsAbsent /\ Arguments = PyNone) =>
          /\ Len(invoked) = 1
          /\ invoked[1].args = PyNone

C22_Witness ==
  /\ server = "blender"
  /\ IsToolsCall /\ CallsRegistered
  /\ ~ArgumentsAbsent /\ Arguments = PyNone
  /\ Len(invoked) = 1
  /\ invoked[1].tool = "create_object"
  /\ invoked[1].args = PyNone
  /\ invoked[1].raised
  /\ IsError(returned[1], -32603)

(***************************************************************************)
(* C23: every error object, returned by handle_request or written by main, *)
(* has code and message.  The data field is present only on a -32603 error *)
(* that handle_request or call_tool built in an except block, from a       *)
(* caught failure, and then it carries the trace; it is absent on -32601   *)
(* and -32700 errors and on the errors main builds.                        *)
(***************************************************************************)
\* A failure was caught while the line at hand was handled
FailureCaught ==
  \/ line.kind = "json" /\ ~IsDict(line.doc)
  \/ IsToolsCall /\ ~IsDict(ReqParams)
  \/ IsToolsCall /\ Len(invoked) = 1 /\ invoked[1].raised

ErrorObjectShape(r) ==
  "error" \in DOMAIN r =>
     /\ {"code", "message"} \subseteq DOMAIN r.error
     /\ DOMAIN r.error \subseteq {"code", "message", "data"}
     /\ r.error.code \in {-32601, -32700} => "data" \notin DOMAIN r.error
     /\ "data" \in DOMAIN r.error =>
          /\ r.error.code = -32603
          /\ r.error.data = Traceback
          /\ returned = <<r>>
          /\ FailureCaught

C23_ErrorDataOnlyWithTrace ==
  /\ \A i \in 1..Len(returned) : ErrorObjectShape(returned[i])
  /\ \A i \in 1..Len(written) : ErrorObjectShape(written[i])

C23_Witness ==
  /\ server = "blender"
  /\ IsToolsCall /\ Len(invoked) = 1 /\ invoked[1].raised
  /\ Len(written) = 1
  /\ IsError(written[1], -32603)
  /\ "data" \in DOMAIN written[1].error
  /\ written[1].error.data = Traceback

(***************************************************************************)
(* C25: no sequence of lines changes the Blender server's safe_mode from   *)
(* its initial value True; so every tools/call to execute_python is        *)
(* answered with a success envelope whose payload has success false, and   *)
(* the submitted code is never executed.                                   *)
(***************************************************************************)
C25_SafeModeStaysOn ==
  server = "blender" =>
     /\ safe_mode = TRUE
     /\ host.executed = FALSE
     /\ (IsToolsCall /\ IsDict(ReqParams) /\ ToolName = PyStr("execute_python")) =>
          /\ Len(returned) = 1
          /\ "error" \notin DOMAIN returned[1]
          /\ "result" \in DOMAIN returned[1]
          /\ Len(returned[1].result.content) = 1
          /\ returned[1].result.content[1].text =
               JsonDumps([success |-> FALSE,
                          error |-> "Python execution disabled in safe mode. Use only trusted scripts."])

C25_Witness ==
  /\ server = "blender"
  /\ lineno = 2
  /\ IsToolsCall /\ IsDict(ReqParams) /\ ToolName = PyStr("execute_python")
  /\ IsDict(Arguments) /\ "code" \in DOMAIN Arguments.d
  /\ Len(invoked) = 1 /\ ~invoked[1].raised
  /\ invoked[1].result.success = FALSE
  /\ host.executed = FALSE

\* The handler the last line invoked was tool, with a dict of arguments
\* whose "action" is a string that upper-cases to one of acts
Managed(inv, tool, acts) ==
  /\ Len(inv) = 1
  /\ inv[1].tool = tool
  /\ IsDict(inv[1].args)
  /\ IsStr(Get(inv[1].args, "action", PyNone))
  /\ Upper(Get(inv[1].args, "action", PyNone).s) \in acts

InternalError(ret) ==
  /\ Len(ret) = 1
  /\ "error" \in DOMAIN ret[1]
  /\ ret[1].error.code = -32603

(***************************************************************************)
(* C26: the host starts with a scene, and after any sequence of lines at   *)
(* least one scene exists: a manage_scenes DELETE of the only remaining    *)
(* scene is answered with an error and leaves the scenes as they were, and *)
(* a DELETE or SWITCH that names a scene that does not exist changes       *)
(* nothing in the host.                                                    *)
(***************************************************************************)
C26_SceneStep ==
  (lineno' = lineno + 1 /\ Managed(invoked', "manage_scenes", {"DELETE", "SWITCH"})
     /\ IsStr(Get(invoked'[1].args, "scene_name", PyNone))) =>
    LET name == Get(invoked'[1].args, "scene_name", PyNone).s IN
    /\ name \notin host.scenes => host' = host
    /\ (Managed(invoked', "manage_scenes", {"DELETE"}) /\ host.scenes = {name}) =>
         (InternalError(returned') /\ host' = host)

C26_AlwaysAScene ==
  /\ [](server = "blender" => (host.scenes # {} /\ host.scene \in host.scenes))
  /\ [][C26_SceneStep]_vars

C26_Witness ==
  /\ Managed(invoked, "manage_scenes", {"DELETE"})
  /\ invoked[1].raised
  /\ invoked[1].msg = <<"Cannot delete the last scene">>
  /\ InternalError(returned)
  /\ host.scenes = {"Scene"}

\* The collection and the object a manage_collections call names
Named(inv, key) == Get(inv[1].args, key, PyNone)

Succeeds(inv, ret) ==
  /\ ~inv[1].raised
  /\ inv[1].result.success = TRUE
  /\ Len(ret) = 1 /\ "result" \in DOMAIN ret[1]

(***************************************************************************)
(* C27: manage_collections membership actions are idempotent.  ADD_OBJECT  *)
(* or LINK_OBJECT applied a second time to the same collection and object  *)
(* succeeds again and leaves the membership the first call left;           *)
(* REMOVE_OBJECT or UNLINK_OBJECT of an object that is not a member        *)
(* succeeds and changes nothing; CREATE with the name of an existing       *)
(* collection is an error and leaves the collections as they were.         *)
(***************************************************************************)
C27_CollectionStep ==
  lineno' = lineno + 1 =>
    /\ (/\ Managed(invoked, "manage_collections", {"ADD_OBJECT", "LINK_OBJECT"})
        /\ Succeeds(invoked, returned)
        /\ Managed(invoked', "manage_collections", {"ADD_OBJECT", "LINK_OBJECT"})
        /\ Named(invoked', "collection_name") = Named(invoked, "collection_name")
        /\ Named(invoked', "object_name") = Named(invoked, "object_name"))
        => (Succeeds(invoked', returned') /\ host'.links = host.links)
    /\ (/\ Managed(invoked', "manage_collections", {"REMOVE_OBJECT", "UNLINK_OBJECT"})
        /\ IsStr(Named(invoked', "collection_name"))
        /\ IsStr(Named(invoked', "object_name"))
        /\ Named(invoked', "collection_name").s \in host.collections
        /\ Named(invoked', "object_name").s \in host.objects
        /\ <<Named(invoked', "collection_name").s, Named(invoked', "object_name").s>> \notin host.links)
        => (Succeeds(invoked', returned') /\ host' = host)
    /\ (/\ Managed(invoked', "manage_collections", {"CREATE"})
        /\ IsStr(Named(invoked', "collection_name"))
        /\ Named(invoked', "collection_name").s \in host.collections)
        => (InternalError(returned') /\ host' = host)

C27_MembershipIdempotent == [][C27_CollectionStep]_vars

C27_Witness ==
  /\ repeated
  /\ Managed(invoked, "manage_collections", {"ADD_OBJECT", "LINK_OBJECT"})
  /\ Succeeds(invoked, returned)
  /\ host.links = {<<"Props", "Cube">>}

(***************************************************************************)
(* C28: once mesh_operations or uv_operations has switched the host to     *)
(* EDIT mode, every way the handler finishes (a successful operation, an   *)
(* unknown operation, a failure raised by the mesh or UV operator) leaves  *)
(* the host in OBJECT mode: no line leaves the host in EDIT mode for the   *)
(* next one.                                                               *)
(***************************************************************************)
C28_BackInObjectMode == server = "blender" => host.mode = "OBJECT"

(***************************************************************************)
(* What the files hold, in the terms the properties use                    *)
(***************************************************************************)
\* The entries under mcpServers of a file that holds a JSON object
Servers(file) ==
  IF file # NoFile /\ file.kind = "json" /\ IsDict(file.doc)
     /\ "mcpServers" \in DOMAIN file.doc.d /\ IsDict(file.doc.d["mcpServers"])
  THEN file.doc.d["mcpServers"].d
  ELSE <<>>

\* The top-level keys of a file other than mcpServers
OtherKeys(file) ==
  IF file # NoFile /\ file.kind = "json" /\ IsDict(file.doc)
  THEN [k \in DOMAIN file.doc.d \ {"mcpServers"} |-> file.doc.d[k]]
  ELSE <<>>

NewNameSet == {NewNames[i] : i \in 1..Len(NewNames)}

(***************************************************************************)
(* C24: update_mcp_json adds the new configurations and overwrites the     *)
(* existing ones of the same name: after a run that returns on an existing *)
(* mcp.json, mcpServers[name] equals NEW_CONFIGS[name] for every name of   *)
(* NEW_CONFIGS, whatever was stored under the name before.                 *)
(***************************************************************************)
C24_NewConfigsOverwrite ==
  \A i \in 1..Len(runs) :
    (runs[i].before # NoFile /\ runs[i].result # "raised") =>
      \A name \in NewNameSet :
        /\ name \in DOMAIN Servers(runs[i].after)
        /\ Servers(runs[i].after)[name] = NEW_CONFIGS[name]

\* The i-th run left both files as it found them and opened neither for
\* writing
ChangesNothing(i) ==
  /\ ~runs[i].wrote /\ ~runs[i].copied
  /\ runs[i].after = runs[i].before
  /\ runs[i].backup_after = runs[i].backup_before

\* A run without mcp.json returns False and creates no file
NoFileNoRun ==
  \A i \in 1..Len(runs) :
    runs[i].before = NoFile => (runs[i].result = "False" /\ ChangesNothing(i))

(***************************************************************************)
(* C29 as stated: update_mcp_json is idempotent.  Run twice in a row on    *)
(* the same mcp.json, the second run makes no change, returns False and    *)
(* writes neither mcp.json nor the backup; and without mcp.json a run      *)
(* returns False and creates no file.                                      *)
(***************************************************************************)
C29_SecondRunReturnsFalse ==
  /\ \A i \in 2..Len(runs) : (runs[i].result = "False" /\ ChangesNothing(i))
  /\ NoFileNoRun

(***************************************************************************)
(* C29, amended: a run that follows another run makes no change and writes *)
(* neither mcp.json nor the backup; it returns False when the run before   *)
(* it returned, and raises when the run before it raised.  Without         *)
(* mcp.json a run returns False and creates no file.                       *)
(***************************************************************************)
C29_SecondRunChangesNothing ==
  /\ \A i \in 2..Len(runs) :
       /\ ChangesNothing(i)
       /\ runs[i - 1].result # "raised" => runs[i].result = "False"
       /\ runs[i - 1].result = "raised" => runs[i].result = "raised"
  /\ NoFileNoRun

C29_Witness ==
  /\ Len(runs) >= 2
  /\ runs[1].result = "True" /\ runs[1].wrote
  /\ runs[1].after # runs[1].before
  /\ runs[2].result = "False"
  /\ mcp_json = runs[1].after

(***************************************************************************)
(* C30: update_mcp_json writes mcp.json only when it added or replaced at  *)
(* least one entry, and then it copies the file to the backup path before  *)
(* it writes, so that after the run the backup holds exactly what mcp.json *)
(* held before the run; every mcpServers entry whose name is not in        *)
(* NEW_CONFIGS and every other top-level key is the same in the written    *)
(* file as before.                                                         *)
(***************************************************************************)
C30_BackupThenWrite ==
  \A i \in 1..Len(runs) :
    LET r == runs[i]
        old == Servers(r.before)
    IN IF r.wrote
       THEN /\ \E name \in NewNameSet :
                 \/ name \notin DOMAIN old
                 \/ old[name] # Servers(r.after)[name]
            /\ r.copied
            /\ r.backup_after = r.before
            /\ r.after.kind = "json"
            /\ \A name \in DOMAIN old \ NewNameSet :
                 /\ name \in DOMAIN Servers(r.after)
                 /\ Servers(r.after)[name] = old[name]
            /\ OtherKeys(r.after) = OtherKeys(r.before)
       ELSE ChangesNothing(i)

====
